---- MODULE Spec2Model ----
(***************************************************************************)
(* Texas Hold'em hand engine of PokerService (bot_poker).                  *)
(*                                                                         *)
(* One game of the activeGames map is modelled together with the user      *)
(* table (the ledger) it shares with every other game of the service.      *)
(* Player ids are the seat indexes 0..n-1 (players[i].id = i).  Amounts    *)
(* are counted in units of the table's betAmount.  Cards are counted, not  *)
(* named: deck, burned and board are lengths, and the strength of each     *)
(* 7-card hand, which the shuffle fixes, is drawn when the showdown reads  *)
(* it.                                                                     *)
(*                                                                         *)
(* A handler is an operator from the world (game, ledger, timer maps,      *)
(* activeGames) to the world, composed the way the code calls it.          *)
(***************************************************************************)
EXTENDS Integers, Sequences, FiniteSets, TLC

\* ---------------------------------------------------------------- bounds
MaxBal     == 3          \* highest ledger balance when the invite is created
MaxTimers  == 2          \* pending setTimeout instances kept at once
NumRanks   == 2          \* distinct hand strengths drawn at a showdown
BetAmount  == 1          \* the table's betAmount (the unit of every amount)

VARIABLES
  game,          \* the Game object (fields as in the Game interface)
  activeGames,   \* TRUE iff activeGames holds the game under its gameKey
  gameInvites,   \* TRUE iff gameInvites still holds the invite
  confirmedUsers,\* invite.confirmedUsers
  gameTimeouts,  \* TRUE iff the deal timer of startGame is pending
  ledger,        \* user.amount of every user of the user table
  timers,        \* pending 30 s timers, oldest first
  calls,         \* handlers of makeCall suspended at an await
  paidIn,        \* history: amount actually debited from ledgers for the pot
  outcome,       \* history: branch the last handler took after the action
  lastOp,        \* history: last operation requested and its result
  handCards,     \* the cards handed to calculateHandRank
  handRank,      \* the { rank, kickers } it returned
  declinedUsers, \* invite.declinedUsers
  clicks,        \* button handlers suspended at an await
  continueGameInfo,    \* TRUE iff the maps of the continuation vote hold
                       \* the key of the settled game
  continueGamePlayers, \* the Set of continueGamePlayers under that key
  continueGamePaid,    \* the Set of continueGamePaid under that key
  responded,     \* history: users who pressed a button of the invite
  voteDebit,     \* history: what the vote debited from each user
  created,       \* history: number of Game objects created
  cardTable      \* deck, burned, board and hole cards of a hand, card by card

vars == <<game, activeGames, gameInvites, confirmedUsers, gameTimeouts,
          ledger, timers, calls, paidIn, outcome, lastOp, handCards, handRank,
          declinedUsers, clicks, continueGameInfo, continueGamePlayers,
          continueGamePaid, responded, voteDebit, created, cardTable>>

\* the state of the invite responses and of the continuation vote, and the
\* cards taken one by one
lobby == <<declinedUsers, clicks, continueGameInfo, continueGamePlayers,
           continueGamePaid, responded, voteDebit, created, cardTable>>

\* the users the invite mentions, creator first
Users  == {0, 1, 2}
Rounds == <<"waiting", "preflop", "flop", "turn", "river", "showdown">>

Min(S) == CHOOSE x \in S : \A y \in S : x <= y
Max(a, b) == IF a >= b THEN a ELSE b

\* ------------------------------------------------------------ the world
\* g: game, led: ledger, tm: timers, act: activeGames; history: paid, out
\* (branch taken), shown and round (board cards on the table and round at
\* the reset), top (the contenders of highest strength when hands were
\* compared), rec (the action record the handler appended and how many it
\* appended; amount and totalBet are -1 when the call leaves them out), res
\* no action record appended yet
NoRecord == [n |-> 0, action |-> "none", amount |-> -1, totalBet |-> -1]

World ==
  [g |-> game, led |-> ledger, tm |-> timers, act |-> activeGames,
   paid |-> paidIn, out |-> "none", shown |-> -1, round |-> "none",
   top |-> {}, rec |-> NoRecord, res |-> "ok"]

Reject(w, why) == [w EXCEPT !.res = why]

Seats(g) == DOMAIN g.players
NumSeats(g) == Cardinality(DOMAIN g.players)
NonFolded(g) == {i \in Seats(g) : ~g.players[i].hasFolded}

\* ------------------------------------------------------------ timer maps
\* A timer instance: kind "turn" (turnTimeouts, keyed by the game) or
\* "insufficient" (insufficientFundsTimeouts, keyed by game and player);
\* inMap tells whether the map still refers to this instance, acted tells
\* whether the player it was armed for had an action accepted since.
TimerRec(kind, playerId) ==
  [kind |-> kind, playerId |-> playerId, inMap |-> TRUE, acted |-> FALSE]

SameKey(t, kind, playerId) ==
  /\ t.kind = kind
  /\ (kind = "insufficient" => t.playerId = playerId)

\* clearTimeout(map.get(key)): the instance the map refers to never fires
ClearTimeout(tm, kind, playerId) ==
  SelectSeq(tm, LAMBDA t : ~(SameKey(t, kind, playerId) /\ t.inMap))

\* map.delete(key) alone: the instance stays pending, out of reach
MapDelete(tm, kind, playerId) ==
  [k \in DOMAIN tm |->
     IF SameKey(tm[k], kind, playerId) THEN [tm[k] EXCEPT !.inMap = FALSE]
     ELSE tm[k]]

\* map.set(key, setTimeout(...)): a new instance replaces the map's entry
MapSet(tm, kind, playerId) ==
  Append(MapDelete(tm, kind, playerId), TimerRec(kind, playerId))

\* history: an action of playerId was accepted
MarkActed(tm, playerId) ==
  [k \in DOMAIN tm |->
     IF tm[k].playerId = playerId
     THEN [tm[k] EXCEPT !.acted = TRUE] ELSE tm[k]]

\* --------------------------------------------------------- toActIds, turn
setToActForNewRound(g) == [g EXCEPT !.toActIds = NonFolded(g)]

\* faulty variant: the raiser leaves toActIds, nobody is put back
setToActKeepActed(g, raiserId) == [g EXCEPT !.toActIds = @ \ {raiserId}]

setToActAfterRaise(g, raiserId) ==
  [g EXCEPT !.toActIds = {i \in Seats(g) : ~g.players[i].hasFolded /\ i # raiserId}]

removeFromToAct(g, playerId) == [g EXCEPT !.toActIds = @ \ {playerId}]

\* faulty variant: the search starts from the player who acted last
findNextAfterCurrent(g, startIndex) ==
  LET n == NumSeats(g)
      hits == {i \in 1..n :
                 ~g.players[(g.currentPlayerIndex + i) % n].hasFolded}
  IN IF hits = {} THEN g.currentPlayerIndex
     ELSE (g.currentPlayerIndex + Min(hits)) % n

findNextActivePlayer(g, startIndex) ==
  LET n == NumSeats(g)
      hits == {i \in 1..n : ~g.players[(startIndex + i) % n].hasFolded}
  IN IF hits = {} THEN startIndex ELSE (startIndex + Min(hits)) % n

\* faulty variant: the seat after the start, whoever sits there
findNextSeat(g, startIndex) == (startIndex + 1) % NumSeats(g)

findNextActorIndex(g, startIndex) ==
  LET n == NumSeats(g)
      first == {i \in 1..n : /\ ~g.players[(startIndex + i) % n].hasFolded
                             /\ ((startIndex + i) % n) \in g.toActIds}
      second == {i \in 1..n : ~g.players[(startIndex + i) % n].hasFolded}
  IN IF first # {} THEN (startIndex + Min(first)) % n
     ELSE IF second # {} THEN (startIndex + Min(second)) % n
     ELSE startIndex

\* ------------------------------------------------------------ settlement
clearTurnTimeout(w) == [w EXCEPT !.tm = ClearTimeout(@, "turn", 0)]

resetForNextHand(w) ==
  [w EXCEPT
     !.g = [@ EXCEPT
              !.board = 0, !.burned = 0, !.pot = 0, !.currentBet = 0,
              !.round = "waiting",
              !.players = [i \in DOMAIN @ |->
                             [@[i] EXCEPT !.hole = 0, !.hasFolded = FALSE,
                                          !.currentBet = 0, !.isAllIn = FALSE,
                                          !.chips = 0]],
              !.deck = 52,
              !.isActive = FALSE],
     !.act = FALSE,
     !.shown = w.g.board,
     !.round = w.g.round,
     !.tm = SelectSeq(ClearTimeout(@, "turn", 0),
                      LAMBDA t : ~(t.kind = "insufficient" /\ t.inMap))]

addMoneyToUser(led, playerId, amount) ==
  [led EXCEPT ![playerId] = @ + amount]

\* faulty variant: the pot is shared by the players still in
awardPotSplit(w, winnerId) ==
  IF ~w.act THEN w
  ELSE resetForNextHand(
         [w EXCEPT !.led = [u \in DOMAIN @ |->
                              IF u \in NonFolded(w.g)
                              THEN @[u] + (w.g.pot \div
                                             Cardinality(NonFolded(w.g)))
                              ELSE @[u]]])

\* faulty variant: the hand is reset before the pot is credited
awardPotResetFirst(w, winnerId) ==
  IF ~w.act THEN w
  ELSE [resetForNextHand(w) EXCEPT
          !.led = addMoneyToUser(@, winnerId, resetForNextHand(w).g.pot)]

\* winnerIds always holds exactly one id at the call sites
awardPotAndRotate(w, winnerId) ==
  IF ~w.act THEN w
  ELSE resetForNextHand(
         [w EXCEPT !.led = addMoneyToUser(@, winnerId, w.g.pot)])

\* ranked[0] of the stable sort by descending strength: the first seat
\* among the contenders of highest strength
RankedFirst(g, rk) ==
  LET c == NonFolded(g)
  IN Min({i \in c : \A j \in c : rk[i] >= rk[j]})

\* history: the contenders no other contender beats
TopRanked(g, rk) ==
  {i \in NonFolded(g) : \A j \in NonFolded(g) : rk[i] >= rk[j]}

handleShowdown(w, rk) ==
  IF NonFolded(w.g) = {} THEN resetForNextHand(w)
  ELSE awardPotAndRotate([w EXCEPT !.top = TopRanked(w.g, rk)],
                         RankedFirst(w.g, rk))

\* faulty variant: the card is popped and not kept in burned
BurnSkipped(g) == [g EXCEPT !.deck = Max(@ - 1, 0)]

\* burned.push(deck.pop()!) and board.push(card) when the pop gave a card
BurnOne(g) ==
  [g EXCEPT !.burned = @ + 1, !.deck = Max(@ - 1, 0)]
DealBoard(g, k) ==
  LET got == IF g.deck >= k THEN k ELSE g.deck
  IN [g EXCEPT !.board = @ + got, !.deck = @ - got]

\* one "if (board.length === have && round !== 'showdown')" block
RevealStreet(g, have, need, k, name) ==
  IF g.board = have /\ g.round # "showdown"
  THEN [(IF g.deck >= need THEN DealBoard(BurnOne(g), k) ELSE g)
          EXCEPT !.round = name]
  ELSE g

BoardComplete(g) == IF g.board = 5 THEN [g EXCEPT !.round = "river"] ELSE g

\* faulty variant: only the next street is opened
revealNextStreet(g) ==
  BoardComplete(
    IF g.board = 0 THEN RevealStreet(g, 0, 4, 3, "flop")
    ELSE IF g.board = 3 THEN RevealStreet(g, 3, 2, 1, "turn")
    ELSE RevealStreet(g, 4, 2, 1, "river"))

revealRemainingBoard(g) ==
  BoardComplete(
    RevealStreet(
      RevealStreet(RevealStreet(g, 0, 4, 3, "flop"), 3, 2, 1, "turn"),
      4, 2, 1, "river"))

\* handleAllInShowdown once the board is revealed
AllInWinner(w, rk) ==
  IF NonFolded(w.g) = {} THEN resetForNextHand(w)
  ELSE IF Cardinality(NonFolded(w.g)) = 1
  THEN awardPotAndRotate(w, CHOOSE i \in NonFolded(w.g) : TRUE)
  ELSE awardPotAndRotate([w EXCEPT !.top = TopRanked(w.g, rk)],
                         RankedFirst(w.g, rk))

handleAllInShowdown(w, rk) ==
  AllInWinner([w EXCEPT !.g = revealRemainingBoard(@)], rk)

\* ------------------------------------------------------------ turn prompt
sendTurnActionButtons(w) ==
  LET g == w.g
      currentPlayer == g.players[g.currentPlayerIndex]
      userAmount == w.led[currentPlayer.id]
      callAmount == Max(0, g.currentBet - currentPlayer.currentBet)
      tm1 == ClearTimeout(w.tm, "turn", 0)
      tm2 == IF userAmount >= callAmount
             THEN ClearTimeout(tm1, "insufficient", currentPlayer.id)
             ELSE tm1
  IN IF currentPlayer.hasFolded \/ currentPlayer.isAllIn THEN w
     ELSE [w EXCEPT !.tm = MapSet(tm2, "turn", currentPlayer.id)]

\* ------------------------------------------------------------ streets
advanceToNextRound(w, rk) ==
  LET g0 == [w.g EXCEPT !.hasRaiseInRound = FALSE,
                        !.lastAggressorIndex = -1,
                        !.actionHistory = 0]
      street(g, name, k) ==
        setToActForNewRound(DealBoard(BurnOne([g EXCEPT !.round = name]), k))
      g1 == CASE g0.round = "preflop" -> street(g0, "flop", 3)
              [] g0.round = "flop"    -> street(g0, "turn", 1)
              [] g0.round = "turn"    -> street(g0, "river", 1)
              [] OTHER                -> g0
      g2 == [g1 EXCEPT !.currentPlayerIndex =
                          findNextActivePlayer(g1, g1.dealerButton)]
  IN IF g0.round = "showdown" THEN handleShowdown([w EXCEPT !.g = g0], rk)
     ELSE IF g0.round = "waiting" THEN [w EXCEPT !.g = g0]
     ELSE sendTurnActionButtons([w EXCEPT !.g = g2])

\* ------------------------------------------------ after an accepted action
\* faulty variant: the round closes as soon as the bets are level
RoundClosedMatchedOnly(g) ==
  \A i \in NonFolded(g) : g.players[i].currentBet = g.currentBet

\* allMatched && toActIds.length === 0
RoundClosed(g) ==
  /\ g.toActIds = {}
  /\ \A i \in NonFolded(g) : g.players[i].currentBet = g.currentBet

\* faulty variant: the turn is followed by the flop again
CloseRoundRestart(w, rk) ==
  IF \E i \in NonFolded(w.g) : w.g.players[i].isAllIn
  THEN handleAllInShowdown([w EXCEPT !.out = "allin"], rk)
  ELSE IF w.g.round = "river"
       THEN handleShowdown(
              [w EXCEPT !.g.round = "showdown", !.out = "showdown"], rk)
       ELSE advanceToNextRound(
              [w EXCEPT !.g.round = IF @ = "turn" THEN "preflop" ELSE @,
                        !.out = "advance"], rk)

\* what a closed round leads to
CloseRound(w, rk) ==
  IF \E i \in NonFolded(w.g) : w.g.players[i].isAllIn
  THEN handleAllInShowdown([w EXCEPT !.out = "allin"], rk)
  ELSE IF w.g.round = "river"
       THEN handleShowdown(
              [w EXCEPT !.g.round = "showdown", !.out = "showdown"], rk)
       ELSE advanceToNextRound([w EXCEPT !.out = "advance"], rk)

NextActor(w) ==
  sendTurnActionButtons(
    [w EXCEPT !.g.currentPlayerIndex =
                 findNextActorIndex(w.g, w.g.currentPlayerIndex),
              !.out = "next"])

AfterTimeoutCleared(w, rk) ==
  IF Cardinality(NonFolded(w.g)) = 1
  THEN awardPotAndRotate([w EXCEPT !.out = "foldout"],
                         CHOOSE i \in NonFolded(w.g) : TRUE)
  ELSE IF RoundClosed(w.g) THEN CloseRound(w, rk)
  ELSE NextActor(w)

moveToNextPlayer(w, rk) == AfterTimeoutCleared(clearTurnTimeout(w), rk)

checkAndContinueGame(w, rk) ==
  IF ~w.act THEN w
  ELSE IF Cardinality(NonFolded(w.g)) = 1
  THEN awardPotAndRotate(clearTurnTimeout([w EXCEPT !.out = "foldout"]),
                         CHOOSE i \in NonFolded(w.g) : TRUE)
  ELSE IF RoundClosed(w.g) THEN CloseRound(w, rk)
  ELSE IF w.g.currentPlayerIndex < NumSeats(w.g) THEN NextActor(w)
  ELSE w

\* ------------------------------------------------------ betting handlers
\* faulty variant: the game the button names is used without the lookup
getGameUnchecked(w) == NumSeats(w.g) > 0

getActiveGame(w) == w.act /\ w.g.isActive

CurrentPlayerId(g) == g.players[g.currentPlayerIndex].id

\* faulty variant: the turn test is missing
EntryAnyPlayer(w, playerId) ==
  IF ~getActiveGame(w) THEN "NoActiveGame"
  ELSE IF w.g.players[w.g.currentPlayerIndex].hasFolded THEN "AlreadyFolded"
  ELSE "ok"

\* the checks every betting handler starts with
Entry(w, playerId) ==
  IF ~getActiveGame(w) THEN "NoActiveGame"
  ELSE IF w.g.players[w.g.currentPlayerIndex].id # playerId THEN "NotYourTurn"
  ELSE IF w.g.players[w.g.currentPlayerIndex].hasFolded THEN "AlreadyFolded"
  ELSE "ok"

\* faulty variant: the player is folded at once instead of after the grace
InsufficientFundsFolds(w, playerId) ==
  [w EXCEPT !.g.players[playerId].hasFolded = TRUE,
            !.g.toActIds = @ \ {playerId},
            !.tm = MapSet(@, "insufficient", playerId),
            !.res = "InsufficientFunds"]

\* rejected for insufficient balance: the grace timer is armed
InsufficientFunds(w, playerId) ==
  [w EXCEPT !.tm = MapSet(@, "insufficient", playerId),
            !.res = "InsufficientFunds"]

\* history kept with every accepted action
Accepted(w, playerId) == [w EXCEPT !.tm = MarkActed(@, playerId)]

\* game.actionHistory.push(playerAction): the entries are counted
addActionToHistory(w, playerId, action, amount, totalBet) ==
  [w EXCEPT !.g.actionHistory = @ + 1,
            !.rec = [n |-> @.n + 1, action |-> action, amount |-> amount,
                     totalBet |-> totalBet]]

\* faulty variant: the call is not added to the pot
callApplyBetOnly(w, playerId, amountToCall, amount) ==
  [w EXCEPT !.led[playerId] = amount,
            !.paid = @ + (w.led[playerId] - amount),
            !.g.players[playerId].currentBet = @ + amountToCall]

\* makeCall from the save of the debited user to the pot
callApply(w, playerId, amountToCall, amount) ==
  [w EXCEPT !.led[playerId] = amount,
            !.paid = @ + (w.led[playerId] - amount),
            !.g.players[playerId].currentBet = @ + amountToCall,
            !.g.pot = @ + amountToCall]

\* makeCall from removeFromToAct to the call of moveToNextPlayer
callRecord(w, playerId, amountToCall) ==
  addActionToHistory(
    Accepted([w EXCEPT !.g = removeFromToAct(@, playerId),
                       !.tm = ClearTimeout(@, "insufficient", playerId)],
             playerId),
    playerId, "call", amountToCall, w.g.players[playerId].currentBet)

\* makeCall from removeFromToAct to its return
callFinish(w, playerId, amountToCall, rk) ==
  moveToNextPlayer(callRecord(w, playerId, amountToCall), rk)

AmountToCall(w) ==
  w.g.currentBet - w.g.players[w.g.currentPlayerIndex].currentBet

makeCall(w, playerId, rk) ==
  IF Entry(w, playerId) # "ok" THEN Reject(w, Entry(w, playerId))
  ELSE IF AmountToCall(w) <= 0 THEN Reject(w, "NothingToCall")
  ELSE IF w.led[playerId] < AmountToCall(w) THEN InsufficientFunds(w, playerId)
  ELSE callFinish(
         callApply(w, playerId, AmountToCall(w),
                   w.led[playerId] - AmountToCall(w)),
         playerId, AmountToCall(w), rk)

makeCheck(w, playerId, rk) ==
  LET g == w.g
      i == g.currentPlayerIndex
      w1 == [w EXCEPT !.g = removeFromToAct(@, playerId)]
  IN IF Entry(w, playerId) # "ok" THEN Reject(w, Entry(w, playerId))
     ELSE IF g.players[i].currentBet < g.currentBet
          THEN Reject(w, "CannotCheck")
     ELSE moveToNextPlayer(
            addActionToHistory(Accepted(w1, playerId), playerId, "check",
                               -1, -1), rk)

\* makeFold from the fold to the call of moveToNextPlayer
foldRecord(w, playerId) ==
  LET i == w.g.currentPlayerIndex
      w1 == [w EXCEPT !.g.players[i].hasFolded = TRUE]
      w2 == [w1 EXCEPT !.g = removeFromToAct(@, playerId),
                       !.tm = ClearTimeout(@, "insufficient", playerId)]
  IN addActionToHistory(Accepted(w2, playerId), playerId, "fold", -1, -1)

makeFold(w, playerId, rk) ==
  IF Entry(w, playerId) # "ok" THEN Reject(w, Entry(w, playerId))
  ELSE moveToNextPlayer(foldRecord(w, playerId), rk)

\* faulty variant: the table bet is left where it was
applyRaiseBetKept(w, playerId, newTotalBet, amountToAdd) ==
  LET i == w.g.currentPlayerIndex
      w1 == [w EXCEPT !.led[playerId] = @ - amountToAdd,
                      !.paid = @ + amountToAdd,
                      !.g.players[i].currentBet = newTotalBet,
                      !.g.pot = @ + amountToAdd,
                      !.g.currentBet = @,
                      !.g.hasRaiseInRound = TRUE,
                      !.g.lastAggressorIndex = i]
  IN [w1 EXCEPT !.g = setToActAfterRaise(@, playerId)]

\* the state change shared by every accepted raise
applyRaise(w, playerId, newTotalBet, amountToAdd) ==
  LET i == w.g.currentPlayerIndex
      w1 == [w EXCEPT !.led[playerId] = @ - amountToAdd,
                      !.paid = @ + amountToAdd,
                      !.g.players[i].currentBet = newTotalBet,
                      !.g.pot = @ + amountToAdd,
                      !.g.currentBet = newTotalBet,
                      !.g.hasRaiseInRound = TRUE,
                      !.g.lastAggressorIndex = i]
  IN [w1 EXCEPT !.g = setToActAfterRaise(@, playerId)]

\* raise by raiseAmount over the table bet (the three button raises)
raiseBy(w, playerId, raiseAmount, rk) ==
  LET g == w.g
      i == g.currentPlayerIndex
      newTotalBet == g.currentBet + raiseAmount
      amountToAdd == newTotalBet - g.players[i].currentBet
      userAmount == w.led[playerId]
      w1 == applyRaise(w, playerId, newTotalBet, amountToAdd)
      w2 == [w1 EXCEPT !.tm = ClearTimeout(@, "insufficient", playerId)]
  IN IF Entry(w, playerId) # "ok" THEN Reject(w, Entry(w, playerId))
     ELSE IF amountToAdd <= 0 THEN Reject(w, "InvalidAmount")
     ELSE IF userAmount < amountToAdd THEN Reject(w, "InsufficientFunds")
     ELSE moveToNextPlayer(
            addActionToHistory(Accepted(w2, playerId), playerId, "raise",
                               raiseAmount, newTotalBet), rk)

makeRaiseByBetAmount(w, playerId, rk) ==
  raiseBy(w, playerId, w.g.betAmount, rk)

makeRaiseByMultiplier(w, playerId, multiplier, rk) ==
  raiseBy(w, playerId, Max(0, w.g.betAmount * multiplier), rk)

makeRaiseByPot(w, playerId, rk) ==
  raiseBy(w, playerId, Max(w.g.betAmount, w.g.pot), rk)

\* raise to a total
makeRaise(w, playerId, toTotal, rk) ==
  LET g == w.g
      i == g.currentPlayerIndex
      amountToAdd == toTotal - g.players[i].currentBet
      userAmount == w.led[playerId]
      w1 == applyRaise(w, playerId, toTotal, amountToAdd)
      w2 == [w1 EXCEPT !.g.players[i].isAllIn =
                          IF g.players[i].chips = 0 THEN TRUE ELSE @,
                       !.tm = ClearTimeout(@, "insufficient", playerId)]
  IN IF Entry(w, playerId) # "ok" THEN Reject(w, Entry(w, playerId))
     ELSE IF amountToAdd <= 0 \/ amountToAdd > g.players[i].chips
          THEN Reject(w, "InvalidAmount")
     ELSE IF toTotal <= g.currentBet THEN Reject(w, "BelowCurrentBet")
     ELSE IF userAmount < amountToAdd THEN InsufficientFunds(w, playerId)
     ELSE moveToNextPlayer(
            addActionToHistory(Accepted(w2, playerId), playerId, "raise",
                               amountToAdd, toTotal), rk)

\* the call-or-fold prompt after an all-in arms the next actor's turn timer
handleAllInInsufficientFunds(w) ==
  LET nextIdx == findNextActorIndex(w.g, w.g.currentPlayerIndex)
  IN [w EXCEPT !.tm = MapSet(ClearTimeout(@, "turn", 0), "turn",
                             w.g.players[nextIdx].id)]

makeAllIn(w, playerId, rk) ==
  LET g == w.g
      i == g.currentPlayerIndex
      userAmount == w.led[playerId]
      amountToCall == Max(0, g.currentBet - g.players[i].currentBet)
      allInAmount == userAmount
      newPlayerBet == g.players[i].currentBet + allInAmount
      w1 == [w EXCEPT !.led[playerId] = 0,
                      !.paid = @ + allInAmount,
                      !.g.players[i].chips = 0,
                      !.g.players[i].currentBet = newPlayerBet,
                      !.g.players[i].isAllIn = TRUE,
                      !.g.pot = @ + allInAmount]
      w2 == IF newPlayerBet > g.currentBet
            THEN [w1 EXCEPT !.g.currentBet = newPlayerBet,
                            !.g.hasRaiseInRound = TRUE,
                            !.g.lastAggressorIndex = i]
            ELSE [w1 EXCEPT !.g.lastAggressorIndex = i]
      w3 == [w2 EXCEPT !.g = setToActAfterRaise(@, playerId)]
  IN IF Entry(w, playerId) # "ok" THEN Reject(w, Entry(w, playerId))
     ELSE IF userAmount <= 0 THEN Reject(w, "NoMoney")
     ELSE IF amountToCall > 0 /\ userAmount < amountToCall
          THEN InsufficientFunds(w, playerId)
     ELSE addActionToHistory(
            moveToNextPlayer(
              handleAllInInsufficientFunds(Accepted(w3, playerId)), rk),
            playerId, "allin", allInAmount, newPlayerBet)

\* ------------------------------------------------------- timer callbacks
handleTurnTimeout(w, playerId, rk) ==
  LET player == w.g.players[w.g.currentPlayerIndex]
      w1 == IF player.id = playerId /\ ~player.hasFolded
            THEN makeFold(w, playerId, rk)
            ELSE Reject(w, "noop")
  IN [w1 EXCEPT !.tm = MapDelete(@, "turn", 0)]

\* faulty variant: the folded player stays in toActIds
foldOnTimeoutKeepToAct(w, playerId, rk) ==
  LET g == w.g
      callAmount == g.currentBet - g.players[playerId].currentBet
      userAmount == w.led[playerId]
      w1 == [w EXCEPT !.g.players[playerId].hasFolded = TRUE]
      w3 == IF userAmount < callAmount THEN checkAndContinueGame(w1, rk)
            ELSE Reject(w, "noop")
  IN IF ~w.act \/ g.players[playerId].hasFolded THEN Reject(w, "noop")
     ELSE [w3 EXCEPT !.tm = MapDelete(@, "insufficient", playerId)]

handleInsufficientFundsTimeout(w, playerId, rk) ==
  LET g == w.g
      callAmount == g.currentBet - g.players[playerId].currentBet
      userAmount == w.led[playerId]
      w1 == [w EXCEPT !.g.players[playerId].hasFolded = TRUE]
      w2 == [w1 EXCEPT !.g = removeFromToAct(@, playerId)]
      w3 == IF userAmount < callAmount THEN checkAndContinueGame(w2, rk)
            ELSE Reject(w, "noop")
  IN IF ~w.act \/ g.players[playerId].hasFolded THEN Reject(w, "noop")
     ELSE [w3 EXCEPT !.tm = MapDelete(@, "insufficient", playerId)]

\* ------------------------------------------------------ start of a hand
deductPlayersFunds(led, playerIds, betAmount) ==
  [u \in DOMAIN led |->
     IF u \in playerIds /\ led[u] >= betAmount THEN led[u] - betAmount
     ELSE led[u]]

NewPlayer(id, chips) ==
  [id |-> id, chips |-> chips, hole |-> 0, hasFolded |-> FALSE,
   currentBet |-> 0, isAllIn |-> FALSE]

NewGame(playerIds, betAmount, chips) ==
  [players |-> [i \in playerIds |-> NewPlayer(i, chips)],
   deck |-> 52, burned |-> 0, board |-> 0,
   pot |-> Cardinality(playerIds) * betAmount,
   currentBet |-> 0, round |-> "waiting", dealerButton |-> 0,
   currentPlayerIndex |-> 0, isActive |-> TRUE, hasRaiseInRound |-> FALSE,
   betAmount |-> betAmount, lastAggressorIndex |-> -1, toActIds |-> {},
   actionHistory |-> 0]

\* no Game object yet
NoGame == [NewGame({}, BetAmount, 0) EXCEPT !.pot = 0, !.isActive = FALSE]

startGame(w, playerIds, betAmount) ==
  LET led1 == deductPlayersFunds(w.led, playerIds, betAmount)
      debited == {u \in playerIds : led1[u] # w.led[u]}
  IN [w EXCEPT !.g = NewGame(playerIds, betAmount, 0),
               !.led = led1,
               !.paid = Cardinality(debited) * betAmount,
               !.act = TRUE]

postBlinds(g) ==
  LET g1 == [g EXCEPT !.players = [i \in DOMAIN @ |->
                                     [@[i] EXCEPT !.currentBet = 0]],
                      !.currentBet = 0,
                      !.currentPlayerIndex =
                         (g.dealerButton + 1) % NumSeats(g)]
  IN [setToActForNewRound(g1) EXCEPT !.lastAggressorIndex = -1]

\* dealCardsAndStartGame from the deal loop on, after its waits
dealCards(w) ==
  LET n == NumSeats(w.g)
      g1 == [w.g EXCEPT !.players = [i \in DOMAIN @ |->
                                       [@[i] EXCEPT !.hole = @ + 2]],
                        !.deck = @ - 2 * n,
                        !.round = "preflop"]
  IN sendTurnActionButtons([w EXCEPT !.g = postBlinds(g1)])

dealCardsAndStartGame(w) == IF ~w.act THEN w ELSE dealCards(w)

\* -------------------------------------------------------- hand evaluator
\* A card is the text rank + suit, kept as the pair <<rank, suit>>.
SUITS == <<"S", "H", "D", "C">>
RANKS == <<"2", "3", "4", "5", "6", "7", "8", "9", "10", "J", "Q", "K", "A">>

createDeck ==
  [k \in 1..(Len(SUITS) * Len(RANKS)) |->
     <<RANKS[((k - 1) % Len(RANKS)) + 1], SUITS[((k - 1) \div Len(RANKS)) + 1]>>]

\* the suffix of the card that is one of SUITS
getCardSuit(card) == card[2]

\* the text before the suit: A, K, Q, J, 10 (or T), else parseInt
getCardValue(card) ==
  CASE card[1] = "A" -> 14
    [] card[1] = "K" -> 13
    [] card[1] = "Q" -> 12
    [] card[1] = "J" -> 11
    [] card[1] \in {"10", "T"} -> 10
    [] OTHER -> CHOOSE v \in 2..9 : RANKS[v - 1] = card[1]

\* values.sort((a, b) => b - a)
SortedValues(hand) ==
  SortSeq([k \in DOMAIN hand |-> getCardValue(hand[k])],
          LAMBDA a, b : a > b)

Suits(hand) == {getCardSuit(hand[k]) : k \in DOMAIN hand}

\* the elements of a set of numbers in ascending order (the order in which
\* Object.entries lists the integer keys of counts)
Ascending(S) ==
  [k \in 1..Cardinality(S) |->
     CHOOSE x \in S : Cardinality({y \in S : y < x}) = k - 1]

Descending(S) ==
  [k \in 1..Cardinality(S) |->
     CHOOSE x \in S : Cardinality({y \in S : y > x}) = k - 1]

\* Object.entries(counts).filter(([_, count]) => count === n), the values
WithCount(values, n) ==
  Ascending({v \in {values[k] : k \in DOMAIN values} :
               Cardinality({k \in DOMAIN values : values[k] = v}) = n})

isFlush(hand) == Len(hand) = 5 /\ Cardinality(Suits(hand)) = 1

\* faulty variant: the wheel is not recognised
isStraightNoWheel(values) ==
  IF Cardinality({values[k] : k \in DOMAIN values}) # 5
  THEN [isStraight |-> FALSE, highCard |-> 0]
  ELSE IF \A i \in 1..4 : values[i] - values[i + 1] = 1
  THEN [isStraight |-> TRUE, highCard |-> values[1]]
  ELSE [isStraight |-> FALSE, highCard |-> 0]

\* values is sorted in descending order at both call sites, so that
\* uniqueValues is values when it has 5 elements
isStraight(values) ==
  IF Cardinality({values[k] : k \in DOMAIN values}) # 5
  THEN [isStraight |-> FALSE, highCard |-> 0]
  ELSE IF \A i \in 1..4 : values[i] - values[i + 1] = 1
  THEN [isStraight |-> TRUE, highCard |-> values[1]]
  ELSE IF values = <<14, 5, 4, 3, 2>>
  THEN [isStraight |-> TRUE, highCard |-> 5]
  ELSE [isStraight |-> FALSE, highCard |-> 0]

\* values.find((v) => ...) || 0 and values.filter((v) => ...)
FindValue(values, excluded) ==
  IF \A k \in DOMAIN values : values[k] \in excluded THEN 0
  ELSE values[Min({k \in DOMAIN values : values[k] \notin excluded})]

FilterValues(values, excluded) ==
  SelectSeq(values, LAMBDA v : v \notin excluded)

\* the cascade of calculateHandRank on the five cards chosen
HandRank(values, flush, straight, pairs, threes, fours) ==
  IF flush /\ straight.isStraight /\ values[1] = 14 /\ values[2] = 13
  THEN [rank |-> 10, kickers |-> <<14>>]
  ELSE IF flush /\ straight.isStraight
  THEN [rank |-> 9, kickers |-> <<straight.highCard>>]
  ELSE IF Len(fours) > 0
  THEN [rank |-> 8,
        kickers |-> <<fours[1], FindValue(values, {fours[1]})>>]
  ELSE IF Len(threes) > 0 /\ Len(pairs) > 0
  THEN [rank |-> 7, kickers |-> <<threes[1], pairs[1]>>]
  ELSE IF flush
  THEN [rank |-> 6, kickers |-> values]
  ELSE IF straight.isStraight
  THEN [rank |-> 5, kickers |-> <<straight.highCard>>]
  ELSE IF Len(threes) > 0
  THEN [rank |-> 4,
        kickers |-> <<threes[1]>> \o
                    SubSeq(FilterValues(values, {threes[1]}), 1, 2)]
  ELSE IF Len(pairs) >= 2
  THEN [rank |-> 3,
        kickers |-> Descending({pairs[k] : k \in DOMAIN pairs}) \o
                    <<FindValue(values, {pairs[k] : k \in DOMAIN pairs})>>]
  ELSE IF Len(pairs) = 1
  THEN [rank |-> 2,
        kickers |-> <<pairs[1]>> \o
                    SubSeq(FilterValues(values, {pairs[1]}), 1, 3)]
  ELSE [rank |-> 1, kickers |-> values]

\* the cascade of evaluateBasicHand
BasicRank(values, flush, straight, pairs, threes, fours) ==
  IF flush /\ straight.isStraight /\ values[1] = 14 /\ values[2] = 13
  THEN [rank |-> 10, kickers |-> <<14>>]
  ELSE IF flush /\ straight.isStraight
  THEN [rank |-> 9, kickers |-> <<straight.highCard>>]
  ELSE IF Len(fours) > 0
  THEN [rank |-> 8, kickers |-> <<fours[1]>>]
  ELSE IF Len(threes) > 0 /\ Len(pairs) > 0
  THEN [rank |-> 7, kickers |-> <<threes[1], pairs[1]>>]
  ELSE IF flush
  THEN [rank |-> 6, kickers |-> values]
  ELSE IF straight.isStraight
  THEN [rank |-> 5, kickers |-> <<straight.highCard>>]
  ELSE IF Len(threes) > 0
  THEN [rank |-> 4, kickers |-> <<threes[1]>>]
  ELSE IF Len(pairs) >= 2
  THEN [rank |-> 3, kickers |-> Descending({pairs[k] : k \in DOMAIN pairs})]
  ELSE IF Len(pairs) = 1
  THEN [rank |-> 2, kickers |-> <<pairs[1]>>]
  ELSE [rank |-> 1, kickers |-> values]

RankOfValues(values, flush) ==
  HandRank(values, flush, isStraight(values), WithCount(values, 2),
           WithCount(values, 3), WithCount(values, 4))

BasicOfValues(values, flush) ==
  BasicRank(values, flush, isStraight(values), WithCount(values, 2),
            WithCount(values, 3), WithCount(values, 4))

evaluateBasicHand(hand) == BasicOfValues(SortedValues(hand), isFlush(hand))

compareHands(hand1, hand2) ==
  IF hand1.rank # hand2.rank THEN hand1.rank - hand2.rank
  ELSE IF \A i \in 1..Min({Len(hand1.kickers), Len(hand2.kickers)}) :
             hand1.kickers[i] = hand2.kickers[i]
  THEN 0
  ELSE hand1.kickers[Min({i \in DOMAIN hand1.kickers :
                             hand1.kickers[i] # hand2.kickers[i]})]
       - hand2.kickers[Min({i \in DOMAIN hand1.kickers :
                               hand1.kickers[i] # hand2.kickers[i]})]

\* the index sets i < j < k < l < m of the five nested loops
Combos(n) == {c \in SUBSET (1..n) : Cardinality(c) = 5}

Pick(hand, c) == [k \in 1..5 |-> hand[Ascending(c)[k]]]

\* c is visited before d by the nested loops
VisitedBefore(c, d) == c # d /\ Min(c \ d) < Min(d \ c)

\* the loop replaces bestHand only by a combination that compareHands puts
\* strictly above it: it ends with the first combination visited that no
\* combination beats
getBestFiveCardHand(hand) ==
  IF Len(hand) = 5 THEN hand
  ELSE IF Len(hand) >= 6
  THEN Pick(hand,
            CHOOSE c \in Combos(Len(hand)) :
               \A d \in Combos(Len(hand)) :
                  IF VisitedBefore(d, c)
                  THEN compareHands(evaluateBasicHand(Pick(hand, d)),
                                    evaluateBasicHand(Pick(hand, c))) < 0
                  ELSE compareHands(evaluateBasicHand(Pick(hand, d)),
                                    evaluateBasicHand(Pick(hand, c))) <= 0)
  ELSE SubSeq(hand, 1, Min({5, Len(hand)}))

\* no hand evaluated yet
NoRank == [rank |-> 0, kickers |-> <<>>]

RankOfFive(bestHand) == RankOfValues(SortedValues(bestHand), isFlush(bestHand))

calculateHandRank(hand) == RankOfFive(getBestFiveCardHand(hand))

\* ---------------------------------------------------------------- actions
\* the strengths the shuffle gave the players' hands
Oracles == [Users -> 1..NumRanks]
NoShuffle == [u \in Users |-> 1]

\* a rejected request leaves no trace of who sent which button
Op(w, kind, playerId) ==
  IF w.res = "ok" THEN [kind |-> kind, playerId |-> playerId, res |-> "ok"]
  ELSE [kind |-> "rejected", playerId |-> -1, res |-> w.res]

Idle == [kind |-> "none", playerId |-> -1, res |-> "ok"]
NoOutcome ==
  [branch |-> "none", shown |-> -1, round |-> "none", top |-> {},
   rec |-> NoRecord]

\* one handler runs at a time: the next starts when the last has returned
Commit(w, kind, playerId) ==
  /\ lastOp = Idle
  /\ Len(w.tm) <= MaxTimers
  /\ game' = w.g
  /\ activeGames' = w.act
  /\ ledger' = w.led
  /\ timers' = w.tm
  /\ paidIn' = w.paid
  /\ outcome' = [branch |-> w.out, shown |-> w.shown, round |-> w.round,
                 top |-> w.top, rec |-> w.rec]
  /\ lastOp' = Op(w, kind, playerId)
  /\ UNCHANGED <<handCards, handRank, lobby>>

\* the hand strengths matter only when the handler reaches a showdown
Showdown(w) == w.out \in {"showdown", "allin"}

\* no card followed
NoCards ==
  [round |-> "none", deck |-> <<>>, burned |-> <<>>, board |-> <<>>,
   hole |-> <<>>, isActive |-> FALSE, hasFolded |-> <<>>, ranked |-> <<>>,
   paidTo |-> <<>>, message |-> "none"]

\* nobody declined, no handler suspended, no continuation vote
NoLobby ==
  /\ declinedUsers = {}
  /\ clicks = <<>>
  /\ continueGameInfo = FALSE
  /\ continueGamePlayers = {}
  /\ continueGamePaid = {}
  /\ responded = {}
  /\ voteDebit = [u \in Users |-> 0]
  /\ created = 0
  /\ cardTable = NoCards

Init ==
  /\ game = NoGame
  /\ activeGames = FALSE
  /\ gameInvites = TRUE
  /\ confirmedUsers \in {{0}, {0, 1}, {0, 1, 2}}
  /\ gameTimeouts = FALSE
  /\ ledger \in [Users -> BetAmount..MaxBal]
  /\ \A u \in Users \ confirmedUsers : ledger[u] = BetAmount
  /\ timers = <<>>
  /\ calls = <<>>
  /\ paidIn = 0
  /\ outcome = NoOutcome
  /\ lastOp = Idle
  /\ handCards = <<>>
  /\ handRank = NoRank
  /\ NoLobby

\* another game of the service debits the shared user table while the
\* invite is open
OtherGameDebit ==
  /\ lastOp = Idle
  /\ gameInvites
  /\ \E u \in confirmedUsers : \E a \in 1..ledger[u] :
        ledger' = [ledger EXCEPT ![u] = @ - a]
  /\ UNCHANGED <<game, activeGames, gameInvites, confirmedUsers,
                 gameTimeouts, timers, calls, paidIn, outcome, lastOp,
                 handCards, handRank, lobby>>

StartGameFromInvite ==
  /\ gameInvites
  /\ gameInvites' = FALSE
  /\ IF Cardinality(confirmedUsers) < 2
     THEN /\ Commit(Reject(World, "NotEnoughPlayers"), "start", 0)
          /\ UNCHANGED gameTimeouts
     ELSE /\ LET w == startGame(World, confirmedUsers, BetAmount) IN
                Commit(w, "start", 0)
          /\ gameTimeouts' = TRUE
  /\ UNCHANGED <<confirmedUsers, calls>>

DealCardsAndStartGame ==
  /\ gameTimeouts
  /\ gameTimeouts' = FALSE
  /\ LET w == dealCardsAndStartGame(World) IN Commit(w, "deal", 0)
  /\ UNCHANGED <<gameInvites, confirmedUsers, calls>>

\* the buttons that carry the game's id are first posted by the deal, which
\* the 100 ms deal timer runs long before any 30 s timer expires
Dealt == ~gameInvites /\ ~gameTimeouts

Frame == UNCHANGED <<gameInvites, confirmedUsers, gameTimeouts, calls>>

MakeCall(p) ==
  /\ Dealt
  /\ LET w0 == makeCall(World, p, NoShuffle) IN
        IF Showdown(w0)
        THEN \E rk \in Oracles : LET w == makeCall(World, p, rk) IN
                Commit(w, "call", p)
        ELSE Commit(w0, "call", p)
  /\ Frame

MakeCheck(p) ==
  /\ Dealt
  /\ LET w0 == makeCheck(World, p, NoShuffle) IN
        IF Showdown(w0)
        THEN \E rk \in Oracles : LET w == makeCheck(World, p, rk) IN
                Commit(w, "check", p)
        ELSE Commit(w0, "check", p)
  /\ Frame

MakeFold(p) ==
  /\ Dealt
  /\ LET w0 == makeFold(World, p, NoShuffle) IN
        IF Showdown(w0)
        THEN \E rk \in Oracles : LET w == makeFold(World, p, rk) IN
                Commit(w, "fold", p)
        ELSE Commit(w0, "fold", p)
  /\ Frame

\* a raise and an all-in leave the others to act: no showdown in the step
MakeRaiseByBetAmount(p) ==
  /\ Dealt
  /\ LET w == makeRaiseByBetAmount(World, p, NoShuffle) IN Commit(w, "raise1", p)
  /\ Frame

MakeRaiseByMultiplier(p) ==
  /\ Dealt
  /\ LET w == makeRaiseByMultiplier(World, p, 2, NoShuffle) IN Commit(w, "raise2", p)
  /\ Frame

MakeRaiseByPot(p) ==
  /\ Dealt
  /\ LET w == makeRaiseByPot(World, p, NoShuffle) IN Commit(w, "raisepot", p)
  /\ Frame

MakeRaise(p) ==
  /\ Dealt
  /\ \E toTotal \in 1..MaxBal :
        LET w == makeRaise(World, p, toTotal, NoShuffle) IN
           Commit(w, "raiseto", p)
  /\ Frame

MakeAllIn(p) ==
  /\ Dealt
  /\ LET w == makeAllIn(World, p, NoShuffle) IN Commit(w, "allin", p)
  /\ Frame

\* the oldest pending timer expires
Expired == [World EXCEPT !.tm = Tail(timers)]

TurnTimeout ==
  /\ Dealt
  /\ timers # <<>>
  /\ Head(timers).kind = "turn"
  /\ LET playerId == Head(timers).playerId
         kind == IF Head(timers).acted THEN "staleTurnTimeout"
                 ELSE "turnTimeout"
     IN LET w0 == handleTurnTimeout(Expired, playerId, NoShuffle) IN
          IF Showdown(w0)
          THEN \E rk \in Oracles :
                 LET w == handleTurnTimeout(Expired, playerId, rk) IN
                    Commit(w, kind, playerId)
          ELSE Commit(w0, kind, playerId)
  /\ Frame

InsufficientFundsTimeout ==
  /\ Dealt
  /\ timers # <<>>
  /\ Head(timers).kind = "insufficient"
  /\ LET playerId == Head(timers).playerId
     IN LET w0 == handleInsufficientFundsTimeout(Expired, playerId,
                                                  NoShuffle) IN
          IF Showdown(w0)
          THEN \E rk \in Oracles :
                 LET w == handleInsufficientFundsTimeout(Expired,
                                                         playerId, rk) IN
                    Commit(w, "insufficientTimeout", playerId)
          ELSE Commit(w0, "insufficientTimeout", playerId)
  /\ Frame

\* the handler's GameResult goes back to its caller, which drops it
Return ==
  /\ lastOp # Idle
  /\ lastOp' = Idle
  /\ outcome' = NoOutcome
  /\ UNCHANGED <<game, activeGames, gameInvites, confirmedUsers,
                 gameTimeouts, ledger, timers, calls, paidIn, handCards,
                 handRank, lobby>>

Next ==
  \/ OtherGameDebit
  \/ StartGameFromInvite
  \/ DealCardsAndStartGame
  \/ \E p \in confirmedUsers : MakeCall(p)
  \/ \E p \in confirmedUsers : MakeCheck(p)
  \/ \E p \in confirmedUsers : MakeFold(p)
  \/ \E p \in confirmedUsers : MakeRaiseByBetAmount(p)
  \/ \E p \in confirmedUsers : MakeRaiseByMultiplier(p)
  \/ \E p \in confirmedUsers : MakeRaiseByPot(p)
  \/ \E p \in confirmedUsers : MakeRaise(p)
  \/ \E p \in confirmedUsers : MakeAllIn(p)
  \/ TurnTimeout
  \/ InsufficientFundsTimeout
  \/ Return

Spec == Init /\ [][Next]_vars

\* ------------------------------------------- the user table is shared
\* The balances are rows of the user table, which the rest of the bot
\* writes too: every handler reads the row again, and the grace prompt
\* offers the call "if you earn more money".  A player with a grace timer
\* pending who cannot cover the call is credited from outside the game.
GraceTimerFor(tm, playerId) ==
  \E k \in DOMAIN tm :
     tm[k].kind = "insufficient" /\ tm[k].playerId = playerId

OtherCredit ==
  /\ lastOp = Idle
  /\ Dealt
  /\ activeGames
  /\ \E u \in Seats(game) :
        /\ GraceTimerFor(timers, u)
        /\ ledger[u] < MaxBal
        /\ ledger[u] < game.currentBet - game.players[u].currentBet
        /\ ledger' = [ledger EXCEPT ![u] = @ + 1]
  /\ UNCHANGED <<game, activeGames, gameInvites, confirmedUsers,
                 gameTimeouts, timers, calls, paidIn, outcome, lastOp,
                 handCards, handRank, lobby>>

NextGrace ==
  \/ Next
  \/ OtherCredit

\* the creator and one more user confirmed
InitGrace == Init /\ confirmedUsers = {0, 1}

SpecGrace == InitGrace /\ [][NextGrace]_vars

\* ------------------------------------------- makeCall, await by await
\* A call click starts a handler of its own; the handlers of two clicks
\* take turns at their awaits.  calls holds the handlers started, with the
\* await each is suspended at (pc), the constants amountToCall and the
\* user.amount it is about to save, and its GameResult once it returned.
MaxCalls == 2

CallRec(playerId, pc, res) ==
  [playerId |-> playerId, pc |-> pc, amountToCall |-> 0, amount |-> 0,
   res |-> res, winnerId |-> -1, totalWinnings |-> 0, credited |-> 0]

InFlight == {k \in DOMAIN calls : calls[k].pc # "returned"}

Returned(k, res) ==
  calls' = [calls EXCEPT ![k].pc = "returned", ![k].res = res]

GameUnchanged ==
  UNCHANGED <<game, activeGames, gameInvites, confirmedUsers, gameTimeouts,
              ledger, timers, paidIn, outcome, lastOp, handCards, handRank,
              lobby>>

\* the click is delivered: getActiveGame and the turn test run before the
\* first wait, await deleteChannelMessage(messageId); the second click
\* comes while the handler of the first is on its way
CallStart(p) ==
  /\ Dealt
  /\ lastOp = Idle
  /\ Len(calls) < MaxCalls
  /\ calls # <<>> => InFlight # {} /\ calls[1].playerId = p
  /\ calls' = Append(calls,
        IF ~getActiveGame(World) THEN CallRec(p, "returned", "NoActiveGame")
        ELSE IF CurrentPlayerId(game) # p
        THEN CallRec(p, "returned", "NotYourTurn")
        ELSE CallRec(p, "deleteChannelMessage", "pending"))
  /\ GameUnchanged

\* after the message is deleted: the folded test and amountToCall, then
\* await userRepository.findOne
CallAmount(k) ==
  /\ lastOp = Idle
  /\ calls[k].pc = "deleteChannelMessage"
  /\ LET p == calls[k].playerId
         amountToCall == game.currentBet - game.players[p].currentBet
     IN IF game.players[p].hasFolded THEN Returned(k, "AlreadyFolded")
        ELSE IF amountToCall <= 0 THEN Returned(k, "NothingToCall")
        ELSE calls' = [calls EXCEPT ![k].pc = "findOne",
                                    ![k].amountToCall = amountToCall]
  /\ GameUnchanged

\* the user row arrives: the funds test, user.amount -= amountToCall on the
\* row read, then await userRepository.save
CallReadUser(k) ==
  /\ lastOp = Idle
  /\ calls[k].pc = "findOne"
  /\ LET p == calls[k].playerId
     IN IF ledger[p] < calls[k].amountToCall
        THEN /\ Returned(k, "InsufficientFunds")
             /\ Len(timers) < MaxTimers
             /\ timers' = MapSet(timers, "insufficient", p)
             /\ UNCHANGED ledger
        ELSE /\ calls' = [calls EXCEPT
                            ![k].pc = "save",
                            ![k].amount = ledger[p] - calls[k].amountToCall]
             /\ UNCHANGED <<timers, ledger>>
  /\ UNCHANGED <<game, activeGames, gameInvites, confirmedUsers,
                 gameTimeouts, paidIn, outcome, lastOp, handCards, handRank,
                 lobby>>

\* the row is saved; the bet and the pot grow, then await saveGameToDatabase
CallSaveUser(k) ==
  /\ lastOp = Idle
  /\ calls[k].pc = "save"
  /\ LET w == callApply(World, calls[k].playerId, calls[k].amountToCall,
                        calls[k].amount)
     IN /\ game' = w.g
        /\ ledger' = w.led
        /\ paidIn' = w.paid
  /\ calls' = [calls EXCEPT ![k].pc = "saveGameToDatabase"]
  /\ UNCHANGED <<activeGames, gameInvites, confirmedUsers, gameTimeouts,
                 timers, outcome, lastOp, handCards, handRank, lobby>>

\* the rest of the handler, to its return
CallFinish(k) ==
  /\ calls[k].pc = "saveGameToDatabase"
  /\ \E rk \in IF Showdown(callFinish(World, calls[k].playerId,
                                        calls[k].amountToCall, NoShuffle))
               THEN Oracles ELSE {NoShuffle} :
        Commit(callFinish(World, calls[k].playerId, calls[k].amountToCall,
                          rk), "call", calls[k].playerId)
  /\ Returned(k, "ok")
  /\ UNCHANGED <<gameInvites, confirmedUsers, gameTimeouts>>

\* the raises that give the call something to pay run between the clicks
RaiseBeforeCall ==
  /\ calls = <<>>
  /\ \E p \in confirmedUsers : MakeRaiseByBetAmount(p)

NextAsync ==
  \/ StartGameFromInvite
  \/ DealCardsAndStartGame
  \/ RaiseBeforeCall
  \/ Return
  \/ \E p \in confirmedUsers : CallStart(p)
  \/ \E k \in DOMAIN calls : CallAmount(k)
  \/ \E k \in DOMAIN calls : CallReadUser(k)
  \/ \E k \in DOMAIN calls : CallSaveUser(k)
  \/ \E k \in DOMAIN calls : CallFinish(k)

SpecAsync == Init /\ [][NextAsync]_vars

\* ------------------------------------- awardPotAndRotate, wait by wait
\* A handler that reaches awardPotAndRotate tests activeGames, reads the
\* pot and then waits four times before the game leaves activeGames: for
\* the winner's row (findOne), for its save, for the result message, and in
\* resetForNextHand for saveGameToDatabase.  The handlers in flight are the
\* records of calls: a makeCall taken wait by wait, and the turn timer's
\* callback, taken at once up to the first wait of the settlement.  winnerId
\* and totalWinnings are the constants of the settlement, amount the
\* user.amount it is about to save, credited what its save added to the row.

\* the world in which moveToNextPlayer calls awardPotAndRotate and the
\* winner it names; winnerId -1 when the move does not settle the hand
awardStart(w, rk) ==
  LET w0 == clearTurnTimeout(w)
      allIn == [w0 EXCEPT !.g = revealRemainingBoard(@), !.out = "allin"]
  IN IF Cardinality(NonFolded(w0.g)) = 1
     THEN [w |-> [w0 EXCEPT !.out = "foldout"],
           winnerId |-> CHOOSE i \in NonFolded(w0.g) : TRUE]
     ELSE IF NonFolded(w0.g) = {} \/ ~RoundClosed(w0.g)
     THEN [w |-> w0, winnerId |-> -1]
     ELSE IF \E i \in NonFolded(w0.g) : w0.g.players[i].isAllIn
     THEN [w |-> [allIn EXCEPT !.top = TopRanked(w0.g, rk)],
           winnerId |-> RankedFirst(w0.g, rk)]
     ELSE IF w0.g.round = "river"
     THEN [w |-> [w0 EXCEPT !.g.round = "showdown", !.out = "showdown",
                            !.top = TopRanked(w0.g, rk)],
           winnerId |-> RankedFirst(w0.g, rk)]
     ELSE [w |-> w0, winnerId |-> -1]

\* the first lines of awardPotAndRotate, to await addMoneyToUser
AwardRec(rec, w, winnerId) ==
  IF ~w.act THEN [rec EXCEPT !.pc = "returned", !.res = "ok"]
  ELSE [rec EXCEPT !.pc = "award.findOne", !.winnerId = winnerId,
                   !.totalWinnings = w.g.pot]

\* the handler with the record rec (at k in calls, or new when k = 0) calls
\* moveToNextPlayer in the world x
ReachMove(x, kind, playerId, rec, k) ==
  \E rk \in IF RoundClosed(x.g) THEN Oracles ELSE {NoShuffle} :
     LET a == awardStart(x, rk)
         r == IF a.winnerId = -1
              THEN [rec EXCEPT !.pc = "returned", !.res = "ok"]
              ELSE AwardRec(rec, a.w, a.winnerId)
     IN /\ IF a.winnerId = -1
           THEN Commit(moveToNextPlayer(x, rk), kind, playerId)
           ELSE Commit(a.w, kind, playerId)
        /\ calls' = IF k = 0 THEN Append(calls, r)
                    ELSE [calls EXCEPT ![k] = r]

\* makeCall after saveGameToDatabase
SettleCallFinish(k) ==
  /\ calls[k].pc = "saveGameToDatabase"
  /\ ReachMove(callRecord(World, calls[k].playerId, calls[k].amountToCall),
               "call", calls[k].playerId, calls[k], k)
  /\ UNCHANGED <<gameInvites, confirmedUsers, gameTimeouts>>

\* the turn timer expires while handlers wait: handleTurnTimeout folds the
\* player whose turn it still is
SettleTurnTimeout ==
  /\ Dealt
  /\ timers # <<>>
  /\ Head(timers).kind = "turn"
  /\ Len(calls) <= MaxCalls
  /\ LET playerId == Head(timers).playerId
         player == game.players[game.currentPlayerIndex]
     IN IF /\ player.id = playerId
           /\ ~player.hasFolded
           /\ Entry(Expired, playerId) = "ok"
        THEN ReachMove(foldRecord(Expired, playerId), "turnTimeout",
                       playerId, CallRec(playerId, "makeFold", "pending"), 0)
        ELSE /\ Commit(handleTurnTimeout(Expired, playerId, NoShuffle),
                       "staleTurnTimeout", playerId)
             /\ UNCHANGED calls
  /\ UNCHANGED <<gameInvites, confirmedUsers, gameTimeouts>>

\* addMoneyToUser: the winner's row arrives, user.amount += amount
AwardReadUser(k) ==
  /\ lastOp = Idle
  /\ calls[k].pc = "award.findOne"
  /\ calls' = [calls EXCEPT
                 ![k].pc = "award.save",
                 ![k].amount = ledger[calls[k].winnerId]
                               + calls[k].totalWinnings]
  /\ GameUnchanged

\* the row is saved; then await sendChannelMessage
AwardSaveUser(k) ==
  /\ lastOp = Idle
  /\ calls[k].pc = "award.save"
  /\ ledger' = [ledger EXCEPT ![calls[k].winnerId] = calls[k].amount]
  /\ calls' = [calls EXCEPT
                 ![k].pc = "award.sendChannelMessage",
                 ![k].credited = calls[k].amount - ledger[calls[k].winnerId]]
  /\ UNCHANGED <<game, activeGames, gameInvites, confirmedUsers,
                 gameTimeouts, timers, paidIn, outcome, lastOp, handCards,
                 handRank, lobby>>

\* the message is sent; resetForNextHand to await saveGameToDatabase
AwardReset(k) ==
  /\ lastOp = Idle
  /\ calls[k].pc = "award.sendChannelMessage"
  /\ game' = resetForNextHand(World).g
  /\ calls' = [calls EXCEPT ![k].pc = "reset.saveGameToDatabase"]
  /\ UNCHANGED <<activeGames, gameInvites, confirmedUsers, gameTimeouts,
                 ledger, timers, paidIn, outcome, lastOp, handCards,
                 handRank, lobby>>

\* the rest of resetForNextHand: the game leaves activeGames, the timers
\* are cleared
AwardFinish(k) ==
  /\ lastOp = Idle
  /\ calls[k].pc = "reset.saveGameToDatabase"
  /\ activeGames' = FALSE
  /\ timers' = resetForNextHand(World).tm
  /\ Returned(k, "ok")
  /\ UNCHANGED <<game, gameInvites, confirmedUsers, gameTimeouts, ledger,
                 paidIn, outcome, lastOp, handCards, handRank, lobby>>

\* the raises and folds that set the table run between the clicks
BetBeforeCall ==
  /\ calls = <<>>
  /\ \E p \in confirmedUsers : MakeRaiseByBetAmount(p) \/ MakeFold(p)

NextSettle ==
  \/ StartGameFromInvite
  \/ DealCardsAndStartGame
  \/ BetBeforeCall
  \/ Return
  \/ SettleTurnTimeout
  \/ \E p \in confirmedUsers : CallStart(p)
  \/ \E k \in DOMAIN calls : CallAmount(k)
  \/ \E k \in DOMAIN calls : CallReadUser(k)
  \/ \E k \in DOMAIN calls : CallSaveUser(k)
  \/ \E k \in DOMAIN calls : SettleCallFinish(k)
  \/ \E k \in DOMAIN calls : AwardReadUser(k)
  \/ \E k \in DOMAIN calls : AwardSaveUser(k)
  \/ \E k \in DOMAIN calls : AwardReset(k)
  \/ \E k \in DOMAIN calls : AwardFinish(k)

SpecSettle == Init /\ [][NextSettle]_vars

\* ------------------------------------------------ the invite, by clicks
\* createInvite leaves the invite in gameInvites with the creator confirmed,
\* one 30 s timer per other mentioned user and, armed last, the timer that
\* starts the game.  A click on the join button runs handlePokerJoin and
\* handleButtonClick, which waits for sendEphemeralMessage after it pushed
\* the user; a click on the decline button runs handlePokerDecline.
creatorId == Min(Users)

MaxClicks == 2

ClickRec(userId, pc) == [userId |-> userId, pc |-> pc]

InviteTimers ==
  [k \in 1..Cardinality(Users \ {creatorId}) |->
     TimerRec("player", Ascending(Users \ {creatorId})[k])]
  \o <<TimerRec("invite", creatorId)>>

InitInvite ==
  /\ game = NoGame
  /\ activeGames = FALSE
  /\ gameInvites = TRUE
  /\ confirmedUsers = {creatorId}
  /\ gameTimeouts = FALSE
  /\ ledger \in [Users -> BetAmount..MaxBal]
  /\ timers = InviteTimers
  /\ calls = <<>>
  /\ paidIn = 0
  /\ outcome = NoOutcome
  /\ lastOp = Idle
  /\ handCards = <<>>
  /\ handRank = NoRank
  /\ NoLobby

\* what the start decision writes, and what no step of the invite writes
started == <<game, activeGames, ledger, paidIn, gameTimeouts, created>>
aside == <<calls, outcome, lastOp, handCards, handRank, continueGameInfo,
           continueGamePlayers, continueGamePaid, voteDebit, cardTable>>

\* the start decision that cancels only an invite nobody confirmed
StartDecisionAlone(tm) ==
  IF ~gameInvites
  THEN /\ timers' = tm
       /\ UNCHANGED <<gameInvites, started>>
  ELSE /\ gameInvites' = FALSE
       /\ timers' = ClearTimeout(tm, "invite", creatorId)
       /\ IF Cardinality(confirmedUsers) < 1
          THEN UNCHANGED started
          ELSE LET w == startGame(World, confirmedUsers, BetAmount)
               IN /\ game' = w.g
                  /\ activeGames' = w.act
                  /\ ledger' = w.led
                  /\ paidIn' = w.paid
                  /\ gameTimeouts' = TRUE
                  /\ created' = created + 1

\* startGameFromInvite, with tm the timers pending when it is called
StartDecision(tm) ==
  IF ~gameInvites
  THEN /\ timers' = tm
       /\ UNCHANGED <<gameInvites, started>>
  ELSE /\ gameInvites' = FALSE
       /\ timers' = ClearTimeout(tm, "invite", creatorId)
       /\ IF Cardinality(confirmedUsers) < 2
          THEN UNCHANGED started
          ELSE LET w == startGame(World, confirmedUsers, BetAmount)
               IN /\ game' = w.g
                  /\ activeGames' = w.act
                  /\ ledger' = w.led
                  /\ paidIn' = w.paid
                  /\ gameTimeouts' = TRUE
                  /\ created' = created + 1

\* handleButtonClick('poker_join') from the filter of declinedUsers on
ClickTail(userId) ==
  /\ declinedUsers' = declinedUsers \ {userId}
  /\ IF /\ Cardinality(confirmedUsers)
             + Cardinality(declinedUsers \ {userId}) = Cardinality(Users)
        /\ gameInvites
     THEN StartDecision(timers)
     ELSE UNCHANGED <<gameInvites, timers, started>>

\* the playerTimeouts key it clears has no gameId: no timer is stored
\* under it
JoinClick(userId) ==
  /\ gameInvites
  /\ Len(clicks) < MaxClicks
  /\ responded' = responded \cup {userId}
  /\ IF userId = creatorId
     THEN UNCHANGED <<confirmedUsers, clicks, declinedUsers, gameInvites,
                      timers, started>>
     ELSE IF userId \notin confirmedUsers
     THEN /\ confirmedUsers' = confirmedUsers \cup {userId}
          /\ clicks' = Append(clicks, ClickRec(userId, "sendEphemeralMessage"))
          /\ UNCHANGED <<declinedUsers, gameInvites, timers, started>>
     ELSE /\ ClickTail(userId)
          /\ UNCHANGED <<confirmedUsers, clicks>>
  /\ UNCHANGED aside

Without(seq, k) == [j \in 1..(Len(seq) - 1) |-> IF j < k THEN seq[j] ELSE seq[j + 1]]

\* sendEphemeralMessage returned (sent) or threw: the exception leaves
\* handleButtonClick and is caught by handlePokerJoin
JoinResume(k, sent) ==
  /\ clicks[k].pc = "sendEphemeralMessage"
  /\ clicks' = Without(clicks, k)
  /\ IF sent THEN ClickTail(clicks[k].userId)
     ELSE UNCHANGED <<declinedUsers, gameInvites, timers, started>>
  /\ UNCHANGED <<confirmedUsers, responded>>
  /\ UNCHANGED aside

\* handlePokerDecline calls declineGame, which looks the key up in
\* continueGamePlayers: the invite has no entry there
DeclineClick(userId) ==
  /\ gameInvites
  /\ responded' = responded \cup {userId}
  /\ UNCHANGED <<confirmedUsers, declinedUsers, clicks, gameInvites, timers,
                 started>>
  /\ UNCHANGED aside

PlayerTimeout ==
  /\ timers # <<>>
  /\ Head(timers).kind = "player"
  /\ timers' = Tail(timers)
  /\ declinedUsers' =
       IF /\ gameInvites
          /\ Head(timers).playerId \notin confirmedUsers \cup declinedUsers
       THEN declinedUsers \cup {Head(timers).playerId}
       ELSE declinedUsers
  /\ UNCHANGED <<confirmedUsers, clicks, gameInvites, responded, started>>
  /\ UNCHANGED aside

InviteTimeout ==
  /\ timers # <<>>
  /\ Head(timers).kind = "invite"
  /\ IF gameInvites THEN StartDecision(Tail(timers))
     ELSE /\ timers' = Tail(timers)
          /\ UNCHANGED <<gameInvites, started>>
  /\ UNCHANGED <<confirmedUsers, declinedUsers, clicks, responded>>
  /\ UNCHANGED aside

NextInvite ==
  \/ \E userId \in Users : JoinClick(userId)
  \/ \E userId \in Users : DeclineClick(userId)
  \/ \E k \in DOMAIN clicks : \E sent \in BOOLEAN : JoinResume(k, sent)
  \/ PlayerTimeout
  \/ InviteTimeout

SpecInvite == InitInvite /\ [][NextInvite]_vars

\* ------------------------------------------------- the continuation vote
\* resetForNextHand ends with sendContinueGameButtons: the vote is open, its
\* sets of accepted and paid users are empty and, the message being sent,
\* the 15 s timer is armed.  continueGame waits for the user's row, then for
\* deductPlayersFunds.
SettledGame ==
  [resetForNextHand(
     [g |-> NewGame({0, 1}, BetAmount, 0), led |-> [u \in Users |-> 0],
      tm |-> <<>>, act |-> TRUE, paid |-> 0, out |-> "none", shown |-> -1,
      round |-> "none", top |-> {}, rec |-> NoRecord, res |-> "ok"]).g
   EXCEPT !.actionHistory = 1]

InitContinue ==
  /\ game = SettledGame
  /\ activeGames = FALSE
  /\ gameInvites = FALSE
  /\ confirmedUsers = Seats(SettledGame)
  /\ gameTimeouts = FALSE
  /\ ledger \in [Users -> 0..MaxBal]
  /\ timers = <<TimerRec("continue", 0)>>
  /\ calls = <<>>
  /\ paidIn = 0
  /\ outcome = NoOutcome
  /\ lastOp = Idle
  /\ handCards = <<>>
  /\ handRank = NoRank
  /\ declinedUsers = {}
  /\ clicks = <<>>
  /\ continueGameInfo = TRUE
  /\ continueGamePlayers = {}
  /\ continueGamePaid = {}
  /\ responded = {}
  /\ voteDebit = [u \in Users |-> 0]
  /\ created = 0
  /\ cardTable = NoCards

\* what no step of the vote writes
apart == <<gameInvites, confirmedUsers, gameTimeouts, calls, paidIn,
           outcome, lastOp, handCards, handRank, declinedUsers, responded,
           cardTable>>

ContinueClick(playerId) ==
  /\ continueGameInfo
  /\ Len(clicks) < MaxClicks
  /\ clicks' = Append(clicks, ClickRec(playerId, "findOne"))
  /\ UNCHANGED <<game, activeGames, ledger, timers, continueGameInfo,
                 continueGamePlayers, continueGamePaid, voteDebit, created>>
  /\ UNCHANGED apart

\* the row is read: below betAmount the call returns; else the user is
\* added to the set the call holds (out of the map once the vote is cleaned
\* up) and, unless already in the paid set, deductPlayersFunds is called
ContinueCheck(k) ==
  LET playerId == clicks[k].userId IN
  /\ clicks[k].pc = "findOne"
  /\ IF ledger[playerId] < BetAmount
     THEN /\ clicks' = Without(clicks, k)
          /\ UNCHANGED continueGamePlayers
     ELSE /\ continueGamePlayers' =
               IF continueGameInfo THEN continueGamePlayers \cup {playerId}
               ELSE continueGamePlayers
          /\ clicks' = IF playerId \in continueGamePaid
                       THEN Without(clicks, k)
                       ELSE [clicks EXCEPT ![k].pc = "deductPlayersFunds"]
  /\ UNCHANGED <<game, activeGames, ledger, timers, continueGameInfo,
                 continueGamePaid, voteDebit, created>>
  /\ UNCHANGED apart

ContinueDeduct(k) ==
  LET playerId == clicks[k].userId
      led1 == deductPlayersFunds(ledger, {playerId}, BetAmount)
  IN /\ clicks[k].pc = "deductPlayersFunds"
     /\ ledger' = led1
     /\ voteDebit' = [voteDebit EXCEPT
                        ![playerId] = @ + ledger[playerId] - led1[playerId]]
     /\ continueGamePaid' = continueGamePaid \cup {playerId}
     /\ clicks' = Without(clicks, k)
     /\ UNCHANGED <<game, activeGames, timers, continueGameInfo,
                    continueGamePlayers, created>>
     /\ UNCHANGED apart

DeclineGame(playerId) ==
  /\ continueGameInfo
  /\ continueGamePlayers' = continueGamePlayers \ {playerId}
  /\ UNCHANGED <<game, activeGames, ledger, timers, continueGameInfo, clicks,
                 continueGamePaid, voteDebit, created>>
  /\ UNCHANGED apart

\* the refund loop that credits nobody
keepPaid(led, paidSet, betAmount) == led

\* handleContinueGameTimeout, the loop over the paid set
refundPaid(led, paidSet, betAmount) ==
  [u \in DOMAIN led |->
     IF u \in paidSet THEN addMoneyToUser(led, u, betAmount)[u] ELSE led[u]]

\* the Game object createNewGame puts into activeGames
newGame(betAmount, players) ==
  LET n == Len(players)
  IN [NewGame(0..(n - 1), betAmount, betAmount) EXCEPT
        !.players = [i \in 0..(n - 1) |->
                       NewPlayer(players[i + 1], betAmount)]]

createNewGame(w, betAmount, players) ==
  dealCardsAndStartGame([w EXCEPT !.g = newGame(betAmount, players),
                                  !.act = TRUE])

PlayerIds(g) == {g.players[i].id : i \in Seats(g)}

ContinueGameTimeout ==
  /\ timers # <<>>
  /\ Head(timers).kind = "continue"
  /\ continueGameInfo' = FALSE
  /\ continueGamePlayers' = {}
  /\ IF continueGameInfo /\ Cardinality(continueGamePlayers) >= 2
     THEN LET w == createNewGame(
                     [World EXCEPT
                        !.tm = ClearTimeout(Tail(timers), "continue", 0)],
                     BetAmount, Ascending(continueGamePlayers))
          IN /\ game' = w.g
             /\ activeGames' = w.act
             /\ timers' = w.tm
             /\ created' = created + 1
             /\ UNCHANGED <<ledger, voteDebit>>
     ELSE /\ ledger' = refundPaid(ledger, continueGamePaid, BetAmount)
          /\ voteDebit' = [u \in Users |->
                             voteDebit[u] - (ledger'[u] - ledger[u])]
          /\ timers' = ClearTimeout(Tail(timers), "continue", 0)
          /\ UNCHANGED <<game, activeGames, created>>
  /\ UNCHANGED <<clicks, continueGamePaid>>
  /\ UNCHANGED apart

NextContinue ==
  \/ \E playerId \in Users : ContinueClick(playerId)
  \/ \E k \in DOMAIN clicks : ContinueCheck(k)
  \/ \E k \in DOMAIN clicks : ContinueDeduct(k)
  \/ \E playerId \in Users : DeclineGame(playerId)
  \/ ContinueGameTimeout

SpecContinue == InitContinue /\ [][NextContinue]_vars

\* ------------------------------------------- the game before its deal
\* createNewGame keeps the id of the game the vote followed, so the buttons
\* of that game address the new one.  It puts the new game, in round
\* 'waiting', into activeGames and calls dealCardsAndStartGame, which waits
\* for its messages before the deal loop: calls holds that wait.  The
\* accepted users are seated in the order of their ids.
InitWaiting ==
  /\ \E S \in {T \in SUBSET Users : /\ Cardinality(T) >= 2
                                    /\ T = 0..(Cardinality(T) - 1)} :
        /\ game = newGame(BetAmount, Ascending(S))
        /\ confirmedUsers = S
        /\ paidIn = Cardinality(S) * BetAmount
  /\ activeGames = TRUE
  /\ gameInvites = FALSE
  /\ gameTimeouts = FALSE
  /\ ledger \in [Users -> 0..MaxBal]
  /\ timers = <<>>
  /\ calls = <<CallRec(-1, "sendChannelMessage", "pending")>>
  /\ outcome = NoOutcome
  /\ lastOp = Idle
  /\ handCards = <<>>
  /\ handRank = NoRank
  /\ NoLobby

\* the messages are sent: the deal loop, the blinds, the first turn
DealAfterWait ==
  /\ calls # <<>>
  /\ calls[1].pc = "sendChannelMessage"
  /\ Commit(dealCards(World), "deal", 0)
  /\ Returned(1, "ok")
  /\ UNCHANGED <<gameInvites, confirmedUsers, gameTimeouts>>

Waiting == game.round = "waiting"

NextWaiting ==
  \/ DealAfterWait
  \/ \E p \in confirmedUsers : Waiting /\ MakeCall(p)
  \/ \E p \in confirmedUsers : Waiting /\ MakeCheck(p)
  \/ \E p \in confirmedUsers : Waiting /\ MakeFold(p)
  \/ \E p \in confirmedUsers : Waiting /\ MakeRaiseByBetAmount(p)
  \/ \E p \in confirmedUsers : Waiting /\ MakeRaiseByMultiplier(p)
  \/ \E p \in confirmedUsers : Waiting /\ MakeRaiseByPot(p)
  \/ \E p \in confirmedUsers : Waiting /\ MakeRaise(p)
  \/ \E p \in confirmedUsers : Waiting /\ MakeAllIn(p)
  \/ Return

SpecWaiting == InitWaiting /\ [][NextWaiting]_vars

\* ------------------------------------------------- the cards, one by one
\* The cards of one table from createDeck on: the deal, the three streets,
\* the reveal of the rest of the board after an all-in and the reset that
\* follows a settlement, for every number of players the command lets in.
MaxPlayers == 8
MaxCut == 3

Undefined == <<>>

\* the orders the shuffle gives the deck (some of them: the deck cut at k)
shuffleDeck(deck, k) ==
  [j \in DOMAIN deck |-> deck[((j + k - 1) % Len(deck)) + 1]]

\* faulty variant: the card is read and stays in the deck
popKept(deck) ==
  IF deck = <<>> THEN [card |-> Undefined, deck |-> <<>>]
  ELSE [card |-> deck[Len(deck)], deck |-> deck]

\* deck.pop(): the last card, undefined when the deck is empty
pop(deck) ==
  IF deck = <<>> THEN [card |-> Undefined, deck |-> <<>>]
  ELSE [card |-> deck[Len(deck)], deck |-> SubSeq(deck, 1, Len(deck) - 1)]

\* game.burned.push(game.deck.pop()!)
burnCard(t) ==
  [t EXCEPT !.burned = Append(@, pop(t.deck).card), !.deck = pop(t.deck).deck]

\* const card = game.deck.pop(); if (card) game.board.push(card)
boardCard(t) ==
  [t EXCEPT !.board = IF pop(t.deck).card # Undefined
                      THEN Append(@, pop(t.deck).card) ELSE @,
            !.deck = pop(t.deck).deck]

\* the m-th pop of the two rounds over the players, and those after it
RECURSIVE dealHoleCards(_, _)
dealHoleCards(t, m) ==
  LET n == Len(t.hole) IN
  IF m = 2 * n THEN t
  ELSE dealHoleCards(
         [t EXCEPT !.hole[(m % n) + 1] =
                      IF pop(t.deck).card # Undefined
                      THEN Append(@, pop(t.deck).card) ELSE @,
                   !.deck = pop(t.deck).deck],
         m + 1)

\* the cards of advanceToNextRound
streetCards(t) ==
  CASE t.round = "preflop" ->
         boardCard(boardCard(boardCard(burnCard([t EXCEPT !.round = "flop"]))))
    [] t.round = "flop" -> boardCard(burnCard([t EXCEPT !.round = "turn"]))
    [] t.round = "turn" -> boardCard(burnCard([t EXCEPT !.round = "river"]))
    [] OTHER -> t

\* the cards of revealRemainingBoard
revealCards(t) ==
  LET t1 == IF Len(t.board) = 0 /\ t.round # "showdown"
            THEN [(IF Len(t.deck) >= 4
                   THEN boardCard(boardCard(boardCard(burnCard(t)))) ELSE t)
                    EXCEPT !.round = "flop"]
            ELSE t
      t2 == IF Len(t1.board) = 3 /\ t1.round # "showdown"
            THEN [(IF Len(t1.deck) >= 2 THEN boardCard(burnCard(t1)) ELSE t1)
                    EXCEPT !.round = "turn"]
            ELSE t1
      t3 == IF Len(t2.board) = 4 /\ t2.round # "showdown"
            THEN [(IF Len(t2.deck) >= 2 THEN boardCard(burnCard(t2)) ELSE t2)
                    EXCEPT !.round = "river"]
            ELSE t2
  IN IF Len(t3.board) = 5 THEN [t3 EXCEPT !.round = "river"] ELSE t3

\* a game as startGame makes it: a shuffled deck, players without cards
NewCards(n, k) ==
  [round |-> "waiting", deck |-> shuffleDeck(createDeck, k),
   burned |-> <<>>, board |-> <<>>, hole |-> [i \in 1..n |-> <<>>],
   isActive |-> TRUE, hasFolded |-> [i \in 1..n |-> FALSE],
   ranked |-> <<>>, paidTo |-> <<>>, message |-> "none"]

InitCards ==
  /\ game = NoGame
  /\ activeGames = FALSE
  /\ gameInvites = FALSE
  /\ confirmedUsers = {}
  /\ gameTimeouts = FALSE
  /\ ledger = [u \in Users |-> 0]
  /\ timers = <<>>
  /\ calls = <<>>
  /\ paidIn = 0
  /\ outcome = NoOutcome
  /\ lastOp = Idle
  /\ handCards = <<>>
  /\ handRank = NoRank
  /\ declinedUsers = {}
  /\ clicks = <<>>
  /\ continueGameInfo = FALSE
  /\ continueGamePlayers = {}
  /\ continueGamePaid = {}
  /\ responded = {}
  /\ voteDebit = [u \in Users |-> 0]
  /\ created = 0
  /\ cardTable \in {NewCards(n, k) : n \in 2..MaxPlayers, k \in 0..MaxCut}

\* what the steps of the cards leave alone
beside == <<game, activeGames, gameInvites, confirmedUsers, gameTimeouts,
            ledger, timers, calls, paidIn, outcome, lastOp, handCards,
            handRank, declinedUsers, clicks, continueGameInfo,
            continueGamePlayers, continueGamePaid, responded, voteDebit,
            created>>

DealCards ==
  /\ cardTable.isActive
  /\ cardTable.round = "waiting"
  /\ cardTable' = [dealHoleCards(cardTable, 0) EXCEPT !.round = "preflop"]
  /\ UNCHANGED beside

StreetCards ==
  /\ cardTable.round \in {"preflop", "flop", "turn"}
  /\ cardTable' = streetCards(cardTable)
  /\ UNCHANGED beside

RevealCards ==
  /\ cardTable.round \in {"preflop", "flop", "turn"}
  /\ cardTable' = revealCards(cardTable)
  /\ UNCHANGED beside

\* resetForNextHand: the cards are dropped, a new deck is shuffled and the
\* game is over
ResetCards ==
  /\ cardTable.round \in {"preflop", "flop", "turn", "river"}
  /\ \E k \in 0..MaxCut :
        cardTable' = [NewCards(Len(cardTable.hole), k) EXCEPT
                        !.isActive = FALSE]
  /\ UNCHANGED beside

NextCards ==
  \/ DealCards
  \/ StreetCards
  \/ RevealCards
  \/ ResetCards

SpecCards == InitCards /\ [][NextCards]_vars

\* ------------------------------------------------ the showdown, card by card
\* Three players are dealt the six cards of ShowPool in every way, over the
\* board that ShowBoard gives; the deck is createDeck in an order that puts
\* those cards on top.  ranked, paidTo and message keep what the showdown
\* computed and announced after the hand is reset.
ShowPool ==
  << <<"7", "H">>, <<"K", "S">>, <<"Q", "D">>, <<"Q", "C">>, <<"3", "H">>,
     <<"3", "D">> >>

\* burn, flop, burn, turn, burn, river in the order they are popped
ShowBoard ==
  << <<"9", "C">>, <<"A", "S">>, <<"K", "H">>, <<"7", "D">>, <<"9", "D">>,
     <<"4", "C">>, <<"9", "H">>, <<"2", "S">> >>

\* two hole cards each
ShowPlayers == Len(ShowPool) \div 2

\* the orders of ShowPool that give different pairs of hole cards
ShowDeals ==
  {d \in [1..Len(ShowPool) -> 1..Len(ShowPool)] :
     /\ \A i, j \in DOMAIN d : i # j => d[i] # d[j]
     /\ \A i \in 1..ShowPlayers : d[i] < d[i + ShowPlayers]}

Reverse(seq) == [k \in DOMAIN seq |-> seq[Len(seq) + 1 - k]]

\* an outcome of shuffleDeck: pops give ShowPool in the order d, then
\* ShowBoard
stackedDeck(d) ==
  LET popped == [k \in DOMAIN ShowPool |-> ShowPool[d[k]]] \o ShowBoard
  IN SelectSeq(createDeck,
               LAMBDA c : \A k \in DOMAIN popped : popped[k] # c)
     \o Reverse(popped)

\* the comparator of ranked.sort: negative when a comes first
byStrengthRankOnly(a, b) == b.rank.rank - a.rank.rank

byStrength(a, b) ==
  IF a.rank.rank # b.rank.rank THEN b.rank.rank - a.rank.rank
  ELSE LET n == Min({Len(a.rank.kickers), Len(b.rank.kickers)})
           diff == {i \in 1..n : a.rank.kickers[i] # b.rank.kickers[i]}
       IN IF diff = {} THEN 0
          ELSE b.rank.kickers[Min(diff)] - a.rank.kickers[Min(diff)]

\* Array.prototype.sort is stable: an element goes behind the last one that
\* the comparator does not put after it
insertRanked(sorted, x) ==
  LET before == {0} \cup {i \in DOMAIN sorted : byStrength(sorted[i], x) <= 0}
      k == CHOOSE i \in before : \A j \in before : j <= i
  IN SubSeq(sorted, 1, k) \o <<x>> \o SubSeq(sorted, k + 1, Len(sorted))

RECURSIVE sortRanked(_)
sortRanked(seq) ==
  IF seq = <<>> THEN <<>>
  ELSE insertRanked(sortRanked(SubSeq(seq, 1, Len(seq) - 1)), seq[Len(seq)])

\* game.players.filter((p) => !p.hasFolded), as seats
contenders(t) ==
  SelectSeq([i \in DOMAIN t.hole |-> i], LAMBDA i : ~t.hasFolded[i])

\* contenders.map(...).sort(...)
rankedOf(t) ==
  LET c == contenders(t)
  IN sortRanked([k \in DOMAIN c |->
                   [player |-> c[k],
                    rank |-> calculateHandRank(t.hole[c[k]] \o t.board)]])

\* awardPotAndRotate and resetForNextHand: the pot goes to winnerIds, the
\* cards are dropped, a new deck is made (the step shuffles it)
awardCards(t, winnerIds, ranked, showdownMessage) ==
  [NewCards(Len(t.hole), 0) EXCEPT !.isActive = FALSE,
                                   !.ranked = ranked,
                                   !.paidTo = winnerIds,
                                   !.message = showdownMessage]

handleShowdownCards(t) ==
  LET ranked == rankedOf(t)
  IN IF contenders(t) = <<>> THEN awardCards(t, <<>>, <<>>, "none")
     ELSE awardCards(t, <<ranked[1].player>>, ranked, "final")

handleAllInShowdownCards(t) ==
  LET r == revealCards(t)
      ranked == rankedOf(r)
  IN IF contenders(r) = <<>> THEN awardCards(r, <<>>, <<>>, "none")
     ELSE IF Len(contenders(r)) = 1
     THEN awardCards(r, <<contenders(r)[1]>>, <<>>, "none")
     ELSE awardCards(r, <<ranked[1].player>>, ranked, "all-in")

InitShowdown ==
  /\ game = NoGame
  /\ activeGames = FALSE
  /\ gameInvites = FALSE
  /\ confirmedUsers = {}
  /\ gameTimeouts = FALSE
  /\ ledger = [u \in Users |-> 0]
  /\ timers = <<>>
  /\ calls = <<>>
  /\ paidIn = 0
  /\ outcome = NoOutcome
  /\ lastOp = Idle
  /\ handCards = <<>>
  /\ handRank = NoRank
  /\ declinedUsers = {}
  /\ clicks = <<>>
  /\ continueGameInfo = FALSE
  /\ continueGamePlayers = {}
  /\ continueGamePaid = {}
  /\ responded = {}
  /\ voteDebit = [u \in Users |-> 0]
  /\ created = 0
  /\ cardTable \in {[NewCards(ShowPlayers, 0) EXCEPT !.deck = stackedDeck(d)] :
                      d \in ShowDeals}

\* makeFold of a player whose fold leaves two or more in the hand (the fold
\* that leaves one is settled without a showdown)
FoldCards ==
  /\ cardTable.round \in {"preflop", "flop", "turn", "river"}
  /\ \E i \in DOMAIN cardTable.hole :
        /\ ~cardTable.hasFolded[i]
        /\ Len(contenders(cardTable)) > 2
        /\ cardTable' = [cardTable EXCEPT !.hasFolded[i] = TRUE]
  /\ UNCHANGED beside

\* moveToNextPlayer closes the river: handleShowdown
RiverShowdown ==
  /\ cardTable.round = "river"
  /\ \E k \in 0..MaxCut :
        cardTable' = [handleShowdownCards(cardTable) EXCEPT
                        !.deck = shuffleDeck(createDeck, k)]
  /\ UNCHANGED beside

\* moveToNextPlayer closes a round with players all-in: handleAllInShowdown
AllInShowdown ==
  /\ cardTable.round \in {"preflop", "flop", "turn", "river"}
  /\ \E k \in 0..MaxCut :
        cardTable' = [handleAllInShowdownCards(cardTable) EXCEPT
                        !.deck = shuffleDeck(createDeck, k)]
  /\ UNCHANGED beside

NextShowdown ==
  \/ DealCards
  \/ FoldCards
  \/ StreetCards
  \/ RiverShowdown
  \/ AllInShowdown

SpecShowdown == InitShowdown /\ [][NextShowdown]_vars

\* --------------------------------------------- calculateHandRank alone
\* The evaluator is called with the cards of one player.  Five-card hands
\* come from the cards of the EvalLow lowest and EvalHigh highest ranks in
\* every suit; hands of six and seven cards from the BestLow lowest and
\* BestHigh highest ranks in the first BestSuits suits.  The cards of a
\* hand are in the order of createDeck.
EvalLow   == 5
EvalHigh  == 5
BestLow   == 3
BestHigh  == 2
BestSuits == 2

RankIndex(card) == CHOOSE k \in DOMAIN RANKS : RANKS[k] = card[1]
SuitIndex(card) == CHOOSE k \in DOMAIN SUITS : SUITS[k] = card[2]

Outer(low, high) ==
  {k \in DOMAIN RANKS : k <= low \/ k > Len(RANKS) - high}

EvalDeck ==
  SelectSeq(createDeck, LAMBDA c : RankIndex(c) \in Outer(EvalLow, EvalHigh))

BestDeck ==
  SelectSeq(createDeck,
            LAMBDA c : /\ RankIndex(c) \in Outer(BestLow, BestHigh)
                       /\ SuitIndex(c) <= BestSuits)

\* the cards of deck at the positions c, in the order of the deck
Drawn(deck, c) == [k \in 1..Cardinality(c) |-> deck[Ascending(c)[k]]]

InitEval ==
  /\ game = NoGame
  /\ activeGames = FALSE
  /\ gameInvites = FALSE
  /\ confirmedUsers = {}
  /\ gameTimeouts = FALSE
  /\ ledger = [u \in Users |-> BetAmount]
  /\ timers = <<>>
  /\ calls = <<>>
  /\ paidIn = 0
  /\ outcome = NoOutcome
  /\ lastOp = Idle
  /\ NoLobby
  /\ handRank = NoRank
  /\ \/ \E i \in DOMAIN EvalDeck : \E j \in (i + 1)..Len(EvalDeck) :
        \E k \in (j + 1)..Len(EvalDeck) : \E l \in (k + 1)..Len(EvalDeck) :
        \E m \in (l + 1)..Len(EvalDeck) :
           handCards = <<EvalDeck[i], EvalDeck[j], EvalDeck[k], EvalDeck[l],
                        EvalDeck[m]>>
     \/ \E c \in SUBSET DOMAIN BestDeck :
           /\ Cardinality(c) \in {6, 7}
           /\ handCards = Drawn(BestDeck, c)

Evaluate ==
  /\ handRank = NoRank
  /\ handRank' = calculateHandRank(handCards)
  /\ UNCHANGED <<game, activeGames, gameInvites, confirmedUsers,
                 gameTimeouts, ledger, timers, calls, paidIn, outcome,
                 lastOp, handCards, lobby>>

NextEval == Evaluate

SpecEval == InitEval /\ [][NextEval]_vars

\* ================================================================ claims
Streets == {"preflop", "flop", "turn", "river"}
BettingKinds ==
  {"call", "check", "fold", "raise1", "raise2", "raisepot", "raiseto", "allin"}
RaiseKinds == {"raise1", "raise2", "raisepot", "raiseto"}
FoldKinds == {"fold", "turnTimeout", "staleTurnTimeout", "insufficientTimeout"}

\* the step is a handler that accepted an operation of one of the kinds
AcceptedStep(kinds) ==
  /\ lastOp = Idle
  /\ lastOp'.kind \in kinds
  /\ lastOp'.res = "ok"

TurnTimerFor(tm, playerId) ==
  \E k \in DOMAIN tm : tm[k].kind = "turn" /\ tm[k].playerId = playerId

\* ------------------------------------------------------------------- C1
\* C1: pot conservation.  While the hand is on, pot equals the amount that
\* was actually debited from the ledgers for it (buy-ins at the start plus
\* the increment of every accepted call, raise and all-in).
PotConservation == activeGames => game.pot = paidIn

\* ------------------------------------------------------------------- C2
\* C2: turn exclusivity.  A betting operation is accepted only from the
\* player at currentPlayerIndex of an active game, and an operation turned
\* down for not being the sender's turn changes neither the game nor any
\* ledger balance.
TurnExclusivity ==
  [][/\ AcceptedStep(BettingKinds) =>
          activeGames /\ CurrentPlayerId(game) = lastOp'.playerId
     /\ lastOp'.res = "NotYourTurn" =>
          UNCHANGED <<game, ledger, activeGames>>]_vars

TurnExclusivityWitness ==
  /\ activeGames
  /\ game.round = "flop"
  /\ lastOp.res = "NotYourTurn"

\* ------------------------------------------------------------------- C3
\* C3: an operation of the current player that is turned down (check below
\* the table bet, call with nothing owed, raise with a non-positive or
\* unaffordable amount, action of a folded player, insufficient funds)
\* leaves the game and every ledger balance as they were: the turn is not
\* consumed.
CurrentPlayerRejections ==
  {"CannotCheck", "NothingToCall", "InvalidAmount", "BelowCurrentBet",
   "AlreadyFolded", "InsufficientFunds", "NoMoney"}

RejectionNonMutating ==
  [][lastOp'.res \in CurrentPlayerRejections =>
       UNCHANGED <<game, ledger, activeGames>>]_vars

RejectionWitness ==
  /\ activeGames
  /\ game.round \in Streets
  /\ lastOp.res = "InsufficientFunds"
  /\ \E k \in DOMAIN timers : timers[k].kind = "insufficient"

\* ------------------------------------------------------------------- C4
\* C4: round closure.  After an accepted action in a betting round that
\* leaves more than one player in, the round closes exactly when nobody is
\* left to act and every player still in has matched the table bet; the
\* closure then takes exactly one way: the all-in reveal when a player
\* still in is all-in, else the showdown when the round was the river,
\* else the next street.
NextStreet(r) ==
  CASE r = "preflop" -> "flop" [] r = "flop" -> "turn" [] OTHER -> "river"

\* the table as the action leaves it, before the closure test
MidNonFolded ==
  IF lastOp'.kind \in FoldKinds THEN NonFolded(game) \ {lastOp'.playerId}
  ELSE NonFolded(game)
MidToAct ==
  IF lastOp'.kind \in RaiseKinds \cup {"allin"}
  THEN NonFolded(game) \ {lastOp'.playerId}
  ELSE game.toActIds \ {lastOp'.playerId}
MidMatched ==
  \A i \in MidNonFolded :
     \/ game.players[i].currentBet = game.currentBet
     \/ i = lastOp'.playerId /\ lastOp'.kind = "call"
MidClosed ==
  /\ Cardinality(MidNonFolded) > 1
  /\ MidToAct = {}
  /\ MidMatched

RoundClosure ==
  [][(AcceptedStep(BettingKinds \cup FoldKinds) /\ game.round \in Streets) =>
       IF ~MidClosed
       THEN outcome'.branch \notin {"allin", "showdown", "advance"}
       ELSE IF \E i \in MidNonFolded : game.players[i].isAllIn
       THEN outcome'.branch = "allin" /\ ~activeGames'
       ELSE IF game.round = "river"
       THEN outcome'.branch = "showdown" /\ ~activeGames'
       ELSE /\ outcome'.branch = "advance"
            /\ activeGames'
            /\ game'.round = NextStreet(game.round)
            /\ game'.board > game.board]_vars

RoundClosureWitness ==
  /\ outcome.branch = "advance"
  /\ lastOp.kind = "call"
  /\ game.round = "turn"
  /\ Cardinality(NonFolded(game)) = 3

\* ------------------------------------------------------------------- C5
\* C5: a raise resets the obligations.  Right after an accepted raise of
\* player P (by the bet amount, by a multiple, by the pot, or to a total)
\* toActIds is exactly the set of the players still in other than P, and
\* the table bet is P's bet.
RaiseResetsObligations ==
  [][AcceptedStep(RaiseKinds) =>
       /\ activeGames'
       /\ game'.toActIds = NonFolded(game') \ {lastOp'.playerId}
       /\ game'.currentBet = game'.players[lastOp'.playerId].currentBet]_vars

RaiseResetsObligationsWitness ==
  /\ lastOp.kind = "raise2"
  /\ lastOp.res = "ok"
  /\ game.round = "flop"
  /\ Cardinality(game.toActIds) = 2

\* ------------------------------------------------------------------- C6
\* C6: fold-out.  When a fold, pressed or forced by a timer, leaves one
\* player in, the hand ends in that step in any round: that player is
\* credited the whole pot whatever the cards are, the game leaves the
\* active games, and the board holds the cards it held before the fold.
FoldOutTermination ==
  [][(/\ AcceptedStep(FoldKinds)
      /\ activeGames
      /\ Cardinality(NonFolded(game) \ {lastOp'.playerId}) = 1) =>
       LET winner == CHOOSE i \in NonFolded(game) \ {lastOp'.playerId} : TRUE
       IN /\ outcome'.branch = "foldout"
          /\ ~activeGames'
          /\ ledger' = [ledger EXCEPT ![winner] = @ + game.pot]
          /\ outcome'.shown = game.board]_vars

FoldOutWitness ==
  /\ outcome.branch = "foldout"
  /\ lastOp.kind = "turnTimeout"
  /\ outcome.shown = 3
  /\ Cardinality(DOMAIN game.players) = 3

\* ------------------------------------------------------------------- C7
\* C7: hand liveness.  A hand that has been dealt and is not settled always
\* has a timer pending, so that it goes on when no player does anything.
HandLiveness ==
  (activeGames /\ game.round \in Streets) => timers # <<>>

\* ------------------------------------------------------------------- C8
\* C8: turn-timer expiry.  When the turn timer of a player who has not
\* acted expires and folds the player, the hand is then settled, or on a
\* new street, or another player is current with a turn timer pending.
TurnTimerExpiry ==
  [][AcceptedStep({"turnTimeout"}) =>
       \/ ~activeGames'
       \/ game'.round # game.round
       \/ /\ game'.players[lastOp'.playerId].hasFolded
          /\ CurrentPlayerId(game') # lastOp'.playerId
          /\ TurnTimerFor(timers', CurrentPlayerId(game'))]_vars

\* ------------------------------------------------------------------- C9
\* C9: a turn-timer callback that runs after an action of its player was
\* accepted changes nothing of the game.
StaleTimerNoOp ==
  [][AcceptedStep({"staleTurnTimeout"}) =>
       UNCHANGED <<game, ledger, activeGames>>]_vars

\* ------------------------------------------------------------------ C10
\* C10: duplicate events.  Of two clicks of the same call button whose
\* handlers take turns at their awaits at most one is accepted, and no
\* player's bet is ever above the table bet.
DuplicateCallSafe ==
  /\ Cardinality({k \in DOMAIN calls : calls[k].res = "ok"}) <= 1
  /\ \A i \in DOMAIN game.players :
        game.players[i].currentBet <= game.currentBet

\* the amount the step debited from its player, and the ledger and the pot
\* once it is debited
Debit == paidIn' - paidIn
MidLedger ==
  IF Debit = 0 THEN ledger
  ELSE [ledger EXCEPT ![lastOp'.playerId] = @ - Debit]
MidPot == game.pot + Debit

\* ------------------------------------------------------------------ C11
\* C11: all-in shortcut.  When an accepted action closes a betting round,
\* in any street, while a player still in is all-in, the same step opens
\* the rest of the board up to 5 cards, compares the hands, credits the pot
\* to a contender of highest strength and settles the hand: no timer asks
\* for another action.
AllInShortcut ==
  [][(/\ AcceptedStep(BettingKinds \cup FoldKinds)
      /\ game.round \in Streets
      /\ MidClosed
      /\ \E i \in MidNonFolded : game.players[i].isAllIn) =>
       /\ outcome'.branch = "allin"
       /\ outcome'.shown = 5
       /\ outcome'.top # {}
       /\ \E i \in outcome'.top :
             ledger' = [MidLedger EXCEPT ![i] = @ + MidPot]
       /\ ~activeGames'
       /\ \A k \in DOMAIN timers' : ~timers'[k].inMap]_vars

AllInShortcutWitness ==
  /\ outcome.branch = "allin"
  /\ outcome.shown = 5
  /\ lastOp.kind = "call"
  /\ game.actionHistory = 2
  /\ Cardinality(DOMAIN game.players) = 3

\* ------------------------------------------------------------------ C12
\* C12: an all-in of the current player, not folded and with a positive
\* balance, is accepted and moves the whole balance into the pot, whatever
\* the table bet is.
AllInAlwaysAccepted ==
  [][\A p \in confirmedUsers :
       (/\ MakeAllIn(p)
        /\ getActiveGame(World)
        /\ CurrentPlayerId(game) = p
        /\ ~game.players[p].hasFolded
        /\ ledger[p] > 0) =>
         /\ lastOp'.res = "ok"
         /\ ledger'[p] = 0
         /\ Debit = ledger[p]]_vars

\* ------------------------------------------------------------------ C13
\* C13: a player who is all-in and still in the hand is not in toActIds and
\* is not the player the hand waits for.
AllInNeverToAct ==
  (activeGames /\ game.round \in Streets) =>
     \A i \in NonFolded(game) :
        game.players[i].isAllIn =>
           /\ i \notin game.toActIds
           /\ game.currentPlayerIndex # i

\* ------------------------------------------------------------------ C14
\* C14: once a player still in is all-in, no raise of another player is
\* accepted and the table bet does not grow.
NoRaiseAfterAllIn ==
  [][(/\ AcceptedStep(BettingKinds)
      /\ activeGames
      /\ \E i \in NonFolded(game) : game.players[i].isAllIn) =>
       /\ lastOp'.kind \notin RaiseKinds
       /\ game'.currentBet <= game.currentBet]_vars

\* ------------------------------------------------------------------ C17
\* C17: settlement pays one player.  Every step that settles a hand (fold
\* out, river showdown, all-in showdown) credits the whole pot to exactly
\* one player, who is one of the top contenders when hands were compared,
\* also when several tie; afterwards the pot is 0 and the game inactive.
SettlementSinglePayee ==
  [][(lastOp = Idle /\ activeGames /\ ~activeGames') =>
       /\ MidPot > 0
       /\ \E i \in Seats(game) :
             /\ ledger' = [MidLedger EXCEPT ![i] = @ + MidPot]
             /\ outcome'.top # {} => i \in outcome'.top
       /\ game'.pot = 0
       /\ ~game'.isActive]_vars

SettlementSinglePayeeWitness ==
  /\ outcome.branch = "showdown"
  /\ Cardinality(outcome.top) = 2
  /\ ~activeGames
  /\ game.pot = 0

\* ------------------------------------------------------------------ C18
\* C18: the round of a hand that is not settled only moves forward in the
\* order waiting, preflop, flop, turn, river, showdown; the round a hand is
\* settled in is not before the round the settling step found.
RoundIndex(r) == CHOOSE k \in DOMAIN Rounds : Rounds[k] = r

RoundOnlyForward ==
  [][(lastOp = Idle /\ activeGames) =>
       /\ activeGames' => RoundIndex(game'.round) >= RoundIndex(game.round)
       /\ outcome'.round # "none" =>
            RoundIndex(outcome'.round) >= RoundIndex(game.round)]_vars

RoundOnlyForwardWitness ==
  /\ activeGames
  /\ game.round = "river"
  /\ outcome.branch = "advance"
  /\ lastOp.kind = "check"

\* ------------------------------------------------------------------ C19
\* C19: street dealing.  In a hand that is on, the board holds 0 cards in
\* preflop, 3 in flop, 4 in turn, 5 in river, with 0, 1, 2, 3 cards burned.
StreetDealing ==
  (activeGames /\ game.round \in Streets) =>
     CASE game.round = "preflop" -> game.board = 0 /\ game.burned = 0
       [] game.round = "flop"    -> game.board = 3 /\ game.burned = 1
       [] game.round = "turn"    -> game.board = 4 /\ game.burned = 2
       [] game.round = "river"   -> game.board = 5 /\ game.burned = 3

StreetDealingWitness ==
  /\ activeGames
  /\ game.round = "river"
  /\ game.board = 5
  /\ game.burned = 3
  /\ game.deck = 52 - 2 * Cardinality(DOMAIN game.players) - 8

\* ------------------------------------------------------------------ C20
\* C20: a step that enters a new street leaves hasRaiseInRound false,
\* lastAggressorIndex null, actionHistory empty, toActIds the players still
\* in, and makes the first seat after the dealer button that is still in
\* the current player, whoever acted last.
FirstSeatAfterButton(g) ==
  CHOOSE i \in NonFolded(g) :
     \A j \in NonFolded(g) :
        ((i - g.dealerButton - 1) % NumSeats(g)) <=
        ((j - g.dealerButton - 1) % NumSeats(g))

NewStreetReset ==
  [][(lastOp = Idle /\ outcome'.branch = "advance") =>
       /\ game'.round \in {"flop", "turn", "river"}
       /\ game'.round # game.round
       /\ ~game'.hasRaiseInRound
       /\ game'.lastAggressorIndex = -1
       /\ game'.actionHistory = 0
       /\ game'.toActIds = NonFolded(game')
       /\ game'.currentPlayerIndex = FirstSeatAfterButton(game')]_vars

NewStreetResetWitness ==
  /\ outcome.branch = "advance"
  /\ game.round = "turn"
  /\ game.players[1].hasFolded
  /\ game.currentPlayerIndex = 2
  /\ lastOp.playerId = 0

\* ---------------------------------------------------------------- C15
\* C15: for a hand of 6 or 7 distinct cards the strength calculateHandRank
\* returns is the strength of one of its 5-card subsets, and no 5-card
\* subset has a greater strength under the ordering of compareHands
\* (category first, then the kicker sequences element by element).
EvaluatorMaximal ==
  (Len(handCards) \in {6, 7} /\ handRank # NoRank) =>
     /\ \E c \in Combos(Len(handCards)) :
           handRank = RankOfFive(Pick(handCards, c))
     /\ \A c \in Combos(Len(handCards)) :
           compareHands(RankOfFive(Pick(handCards, c)), handRank) <= 0

\* ---------------------------------------------------------------- C16
\* the categories that apply to five cards, read off the cards themselves
FaceValue(card) == RankIndex(card) + 1
FaceValues(h) == {FaceValue(h[k]) : k \in DOMAIN h}
OneSuit(h) == \A k \in DOMAIN h : h[k][2] = h[1][2]
Wheel(h) == FaceValues(h) = {14, 2, 3, 4, 5}

\* faces: the set of face values, most: the greatest number of cards of
\* one face value
Applies(faces, most, oneSuit, category) ==
  CASE category = 10 -> oneSuit /\ faces = 10..14
    [] category = 9 -> /\ oneSuit
                       /\ \/ \E low \in 2..10 : faces = low..(low + 4)
                          \/ faces = {14, 2, 3, 4, 5}
    [] category = 8 -> most = 4
    [] category = 7 -> most = 3 /\ Cardinality(faces) = 2
    [] category = 6 -> oneSuit
    [] category = 5 -> \/ \E low \in 2..10 : faces = low..(low + 4)
                       \/ faces = {14, 2, 3, 4, 5}
    [] category = 4 -> most >= 3
    [] category = 3 -> \/ most = 2 /\ Cardinality(faces) = 3
                       \/ most = 3 /\ Cardinality(faces) = 2
    [] category = 2 -> most >= 2
    [] OTHER -> TRUE

Highest(faces, most, oneSuit) ==
  CHOOSE category \in 1..10 :
     /\ Applies(faces, most, oneSuit, category)
     /\ \A higher \in (category + 1)..10 :
           ~Applies(faces, most, oneSuit, higher)

MostCopies(h) ==
  CHOOSE n \in 1..Len(h) :
     /\ \E k \in DOMAIN h :
           Cardinality({j \in DOMAIN h : h[j][1] = h[k][1]}) = n
     /\ \A k \in DOMAIN h :
           Cardinality({j \in DOMAIN h : h[j][1] = h[k][1]}) <= n

HighestCategory(h) == Highest(FaceValues(h), MostCopies(h), OneSuit(h))

\* the wheel with its ace replaced by the six of the same suit
SixHigh(h) ==
  [k \in DOMAIN h |-> IF h[k][1] = "A" THEN <<"6", h[k][2]>> ELSE h[k]]

\* C16: for a hand of 5 cards calculateHandRank returns the highest
\* category that applies, in the order royal flush 10, straight flush 9,
\* four of a kind 8, full house 7, flush 6, straight 5, three of a kind 4,
\* two pair 3, one pair 2, high card 1; A-2-3-4-5 is a straight (or
\* straight flush) of high card 5 and compareHands puts it strictly below
\* the straight 2-3-4-5-6.
CategoryOrder ==
  (Len(handCards) = 5 /\ handRank # NoRank) =>
     /\ handRank.rank = HighestCategory(handCards)
     /\ Wheel(handCards) =>
          /\ handRank.rank \in {5, 9}
          /\ handRank.kickers = <<5>>
          /\ calculateHandRank(SixHigh(handCards)).rank = handRank.rank
          /\ compareHands(handRank,
                          calculateHandRank(SixHigh(handCards))) < 0

\* the wheel in more than one suit has been evaluated as a straight
CategoryOrderWitness ==
  /\ Len(handCards) = 5
  /\ Wheel(handCards)
  /\ ~OneSuit(handCards)
  /\ handRank = [rank |-> 5, kickers |-> <<5>>]

\* ------------------------------------------------------------------ C21
\* C21: in every reachable state toActIds holds only ids of players of the
\* game who have not folded, whatever actions, forced folds and street
\* changes led to it.
ToActNonFolded == game.toActIds \subseteq NonFolded(game)

\* a forced fold took a player out of toActIds while others still owe
ToActNonFoldedWitness ==
  /\ activeGames
  /\ lastOp.kind \in {"turnTimeout", "insufficientTimeout"}
  /\ lastOp.res = "ok"
  /\ game.players[lastOp.playerId].hasFolded
  /\ game.toActIds # {}
  /\ game.round \in {"flop", "turn", "river"}

\* ------------------------------------------------------------------ C22
\* C22: for each timer key (the turn timer of the game, the grace timer of
\* the game and a player) at most one timer instance is pending at any
\* time.
OneTimerPerKey ==
  \A j, k \in DOMAIN timers :
     (j # k /\ timers[j].kind = timers[k].kind) =>
        /\ timers[j].kind = "insufficient"
        /\ timers[j].playerId # timers[k].playerId

\* ------------------------------------------------------------------ C23
\* C23: insufficient-funds grace.  A call, a raise to a total or an all-in
\* of the current player that is turned down for insufficient balance arms
\* a grace timer for the player.  When a grace timer expires while its
\* player is still in and cannot cover the call, the player is folded and
\* taken out of toActIds and the closure of the round is evaluated; when
\* the player has folded, or had an action accepted, before the expiry,
\* the expiry changes nothing.
InsufficientFundsGrace ==
  [][/\ \A p \in Users :
          (/\ MakeCall(p) \/ MakeRaise(p) \/ MakeAllIn(p)
           /\ lastOp'.res = "InsufficientFunds") =>
             /\ Len(timers') = Len(timers) + 1
             /\ timers'[Len(timers')] = TimerRec("insufficient", p)
     /\ (/\ InsufficientFundsTimeout
         /\ activeGames
         /\ ~Head(timers).acted
         /\ ~game.players[Head(timers).playerId].hasFolded
         /\ ledger[Head(timers).playerId] <
              game.currentBet
                - game.players[Head(timers).playerId].currentBet) =>
           /\ outcome'.branch \in
                {"foldout", "allin", "showdown", "advance", "next"}
           /\ activeGames' =>
                /\ game'.players[Head(timers).playerId].hasFolded
                /\ Head(timers).playerId \notin game'.toActIds
     /\ (/\ InsufficientFundsTimeout
         /\ activeGames
         /\ \/ Head(timers).acted
            \/ game.players[Head(timers).playerId].hasFolded) =>
           UNCHANGED <<game, ledger, activeGames>>]_vars

\* ------------------------------------------------------------------ C24
\* the hand was dealt and has been settled
Settled == Dealt /\ ~activeGames

BettingStep(p) ==
  \/ MakeCall(p)
  \/ MakeCheck(p)
  \/ MakeFold(p)
  \/ MakeRaiseByBetAmount(p)
  \/ MakeRaiseByMultiplier(p)
  \/ MakeRaiseByPot(p)
  \/ MakeRaise(p)
  \/ MakeAllIn(p)

\* C24: once the hand is settled, every call, check, fold, raise and
\* all-in addressed to the game is turned down as no active game and
\* changes neither the game nor any ledger balance.
SettledRejectsBetting ==
  [][\A p \in Users :
       (Settled /\ BettingStep(p)) =>
          /\ lastOp'.res = "NoActiveGame"
          /\ UNCHANGED <<game, ledger, activeGames, timers>>]_vars

\* a betting operation was turned down after the pot was paid
SettledRejectsBettingWitness ==
  /\ Settled
  /\ lastOp.res = "NoActiveGame"
  /\ game.round = "waiting"
  /\ \E u \in Users : ledger[u] > MaxBal

\* ------------------------------------------------------------------ C25
\* C25: when the hand ends its timers are cleaned up: once the hand is
\* settled no turn timer and no grace timer armed during the hand is
\* pending, and no timer callback changes the game or a ledger balance.
TimersCleanedUp ==
  [][/\ Settled' => timers' = <<>>
     /\ (Settled /\ (TurnTimeout \/ InsufficientFundsTimeout)) =>
           UNCHANGED <<game, ledger, activeGames>>]_vars

\* ------------------------------------------------------------------ C30
\* the blinds the README announces
SmallBlind == 10
BigBlind   == 20

\* C30: when the hand starts, once two hole cards are dealt to each player
\* the small blind and the big blind are posted before the preflop betting
\* begins: right after the deal two players have these bets in front of
\* them and the table bet is the big blind.
BlindsPosted ==
  (activeGames /\ lastOp.kind = "deal") =>
     /\ \A i \in Seats(game) : game.players[i].hole = 2
     /\ game.round = "preflop"
     /\ \E sb, bb \in Seats(game) :
           /\ sb # bb
           /\ game.players[sb].currentBet = SmallBlind
           /\ game.players[bb].currentBet = BigBlind
     /\ game.currentBet = BigBlind

\* C26: a game is created from an invite at most once, only with at least
\* two confirmed users, and its players are exactly the confirmed users,
\* also when the last click and the aggregate timer race.
OneGamePerInvite ==
  /\ created <= 1
  /\ activeGames => created = 1
  /\ created = 1 => /\ Cardinality(confirmedUsers) >= 2
                    /\ Seats(game) = confirmedUsers
                    /\ ~gameInvites

\* the aggregate timer created the game while the click that completes the
\* responses is still waiting for its message
OneGamePerInviteWitness ==
  /\ created = 1
  /\ activeGames
  /\ clicks # <<>>
  /\ Cardinality(confirmedUsers)
       + Cardinality(declinedUsers \ {clicks[1].userId}) = Cardinality(Users)
  /\ \A k \in DOMAIN timers : timers[k].kind # "invite"

\* C27: the step by which the last invited player responds, by a join or
\* by a decline, takes the start decision at once; an invite still open
\* when the aggregate timer expires is decided then, and only users who
\* joined are seated.
RespondedAll == responded \cup {creatorId} = Users /\ clicks = <<>>

NotificationFailed == \E k \in DOMAIN clicks : JoinResume(k, FALSE)

DecisionOnLastResponse ==
  [][/\ (RespondedAll' /\ ~RespondedAll /\ ~NotificationFailed)
          => ~gameInvites'
     /\ (InviteTimeout /\ gameInvites)
          => /\ ~gameInvites'
             /\ created' = created + 1 => Seats(game') = confirmedUsers
             /\ created' = created => Cardinality(confirmedUsers) < 2]_vars

\* the aggregate timer part of C27 alone
DecisionOnInviteTimeout ==
  [][(InviteTimeout /\ gameInvites)
          => /\ ~gameInvites'
             /\ created' = created + 1 => Seats(game') = confirmedUsers
             /\ created' = created => Cardinality(confirmedUsers) < 2]_vars

\* C29: a notification that fails changes nothing of the outcome: the step
\* of a join whose message could not be sent leaves the invite, the game
\* and the ledger as the same step with the message sent leaves them.
NotificationIndifferent ==
  [][\A k \in DOMAIN clicks : JoinResume(k, FALSE) => JoinResume(k, TRUE)]_vars

CallEffect ==
  [][AcceptedStep({"call"}) =>
       LET P == lastOp'.playerId
           d == game.currentBet - game.players[P].currentBet
       IN /\ d > 0
          /\ ledger[P] >= d
          /\ Debit = d
          /\ IF activeGames'
             THEN /\ ledger' = [ledger EXCEPT ![P] = @ - d]
                  /\ game'.pot = game.pot + d
                  /\ game'.currentBet = game.currentBet
                  /\ game'.players[P].currentBet = game.currentBet
                  /\ \A i \in Seats(game) :
                        /\ game'.players[i].hasFolded = game.players[i].hasFolded
                        /\ i # P => game'.players[i].currentBet
                                      = game.players[i].currentBet
                  /\ outcome'.branch = "next" => P \notin game'.toActIds
             ELSE \E i \in Seats(game) :
                     ledger' = [MidLedger EXCEPT ![i] = @ + MidPot]]_vars

\* a call after which the round goes on with another player
CallEffectWitness ==
  /\ activeGames
  /\ lastOp.kind = "call"
  /\ lastOp.res = "ok"
  /\ outcome.branch = "next"
  /\ game.currentBet > 0
  /\ game.players[lastOp.playerId].currentBet = game.currentBet
  /\ lastOp.playerId \notin game.toActIds
  /\ game.toActIds # {}

\* ------------------------------------------------------------------ C32
\* C32: turn advancement.  After an accepted action that neither closes the
\* round nor ends the hand, the current player is the nearest seat after
\* the actor, in cyclic seat order, whose player is still in and in
\* toActIds.
NearestAfter(g, from, S) ==
  CHOOSE i \in S :
     \A j \in S : ((i - from - 1) % NumSeats(g)) <= ((j - from - 1) % NumSeats(g))

StillToAct(g) == {i \in NonFolded(g) : i \in g.toActIds}

TurnAdvancement ==
  [][(/\ AcceptedStep(BettingKinds \cup FoldKinds)
      /\ outcome'.branch = "next") =>
       /\ StillToAct(game') # {}
       /\ game'.currentPlayerIndex =
            NearestAfter(game', lastOp'.playerId, StillToAct(game'))]_vars

\* the seat after the actor is skipped
TurnAdvancementWitness ==
  /\ activeGames
  /\ lastOp.res = "ok"
  /\ lastOp.kind \in BettingKinds
  /\ outcome.branch = "next"
  /\ NumSeats(game) = 3
  /\ game.currentPlayerIndex = (lastOp.playerId + 2) % 3
  /\ (lastOp.playerId + 1) % 3 \notin StillToAct(game)

\* ------------------------------------------------------------------ C33
\* C33: in a hand that goes on after an accepted action, toActIds is never
\* empty while a player still in has a bet that differs from the table
\* bet: the search of the next actor always finds a player in toActIds,
\* and a round in which nobody is left to act closes.
NoOrphanObligation ==
  [][AcceptedStep(BettingKinds \cup FoldKinds) =>
       /\ (activeGames' /\ game'.toActIds = {}) =>
             \A i \in NonFolded(game') :
                game'.players[i].currentBet = game'.currentBet
       /\ outcome'.branch = "next" => StillToAct(game') # {}
       /\ (/\ game.round \in Streets
           /\ Cardinality(MidNonFolded) > 1
           /\ MidToAct = {}) =>
             outcome'.branch \in {"allin", "showdown", "advance"}]_vars

\* the last player to act folds and the two left, who have matched the
\* raise, go to the next street
NoOrphanObligationWitness ==
  /\ activeGames
  /\ lastOp.kind \in FoldKinds
  /\ lastOp.res = "ok"
  /\ outcome.branch = "advance"
  /\ game.currentBet > 0
  /\ Cardinality(NonFolded(game)) = 2

\* ------------------------------------------------------------------ C34
\* C34: every accepted call, raise (by the bet amount, by a multiple, by the
\* pot, to a total) and all-in appends exactly one action record; its
\* amount is what the action added to the pot and its totalBet is the
\* actor's bet once the action is applied.
MoneyKinds == {"call", "allin"} \cup RaiseKinds

ActionRecorded ==
  [][AcceptedStep(MoneyKinds) =>
       /\ outcome'.rec.n = 1
       /\ outcome'.rec.amount = Debit
       /\ outcome'.rec.totalBet
            = game.players[lastOp'.playerId].currentBet + Debit]_vars

\* ------------------------------------------------------------------ C35
\* C35: card conservation.  From the deal on, the deck, the burned cards,
\* the board and the hole cards together are the 52 cards of createDeck,
\* each once; every player holds 2 cards; every pop found a card: 0, 4, 6,
\* 8 cards are burned or on the board in preflop, flop, turn, river, for 2
\* to 8 players.
RECURSIVE Flat(_)
Flat(seqs) == IF seqs = <<>> THEN <<>> ELSE Head(seqs) \o Flat(Tail(seqs))

AllCards(t) == t.deck \o t.burned \o t.board \o Flat(t.hole)

Range(f) == {f[x] : x \in DOMAIN f}

CardConservation ==
  cardTable.round \in Streets =>
    /\ Len(AllCards(cardTable)) = Len(createDeck)
    /\ Range(AllCards(cardTable)) = Range(createDeck)
    /\ Cardinality(Range(createDeck)) = 52
    /\ \A i \in DOMAIN cardTable.hole : Len(cardTable.hole[i]) = 2
    /\ Len(cardTable.burned) + Len(cardTable.board)
         = CASE cardTable.round = "preflop" -> 0
             [] cardTable.round = "flop" -> 4
             [] cardTable.round = "turn" -> 6
             [] cardTable.round = "river" -> 8
    /\ Len(cardTable.deck) > 0

\* eight players on the river
CardConservationWitness ==
  /\ cardTable.round = "river"
  /\ Len(cardTable.hole) = MaxPlayers
  /\ Len(cardTable.board) = 5
  /\ Len(cardTable.burned) = 3
  /\ Len(cardTable.deck) = 52 - 2 * MaxPlayers - 8

\* ------------------------------------------------------------------ C36
\* C36: at a showdown (river or all-in) the pot goes to exactly one player,
\* who has not folded and whose evaluated hand (hole cards and the five
\* board cards) no other player still in the hand beats: its category is
\* higher, or the category is the same and the kickers, read from the
\* first, are not lower.
AtLeast(r1, r2) ==
  \/ r1.rank > r2.rank
  \/ /\ r1.rank = r2.rank
     /\ \/ r1.kickers = r2.kickers
        \/ \E i \in DOMAIN r1.kickers :
              /\ i \in DOMAIN r2.kickers
              /\ r1.kickers[i] > r2.kickers[i]
              /\ \A j \in 1..(i - 1) : r1.kickers[j] = r2.kickers[j]

\* ranked holds the evaluated hand of every player who has not folded
ShowdownRecipient ==
  [][cardTable'.paidTo # cardTable.paidTo =>
       LET ranked == cardTable'.ranked
           inHand == {i \in DOMAIN cardTable.hole : ~cardTable.hasFolded[i]}
       IN /\ Len(cardTable'.paidTo) = 1
          /\ cardTable'.paidTo[1] \in inHand
          /\ Len(ranked) = Cardinality(inHand)
          /\ {ranked[k].player : k \in DOMAIN ranked} = inHand
          /\ \E k \in DOMAIN ranked :
                /\ ranked[k].player = cardTable'.paidTo[1]
                /\ \A j \in DOMAIN ranked :
                      AtLeast(ranked[k].rank, ranked[j].rank)]_vars

\* seat 1 folded; seats 2 and 3 hold hands of the same category and the
\* later seat, stronger by a kicker, is paid
ShowdownRecipientWitness ==
  /\ cardTable.paidTo = <<3>>
  /\ Len(cardTable.ranked) = 2
  /\ cardTable.ranked[1].rank.rank = cardTable.ranked[2].rank.rank
  /\ cardTable.ranked[1].rank.kickers # cardTable.ranked[2].rank.kickers

\* ------------------------------------------------------------------ C37
\* C37: the pot of a hand is paid out at most once.  Whatever the order in
\* which the handlers and timer callbacks in flight on a game take their
\* steps, the settlements together add to the balances no more than the
\* largest pot any of them read: a second settlement adds nothing on top
\* of the first.
RECURSIVE Credited(_)
Credited(recs) ==
  IF recs = <<>> THEN 0 ELSE Head(recs).credited + Credited(Tail(recs))

PotPaidOnce ==
  \A k \in DOMAIN calls : calls[k].credited > 0 =>
     Credited(calls) <= calls[k].totalWinnings

\* ------------------------------------------------------------------ C38
\* C38: continuation-vote conservation.  When the vote timer expires with
\* no click still being handled, every user the vote debited one bet is
\* either a player of the new game, the bet staying in its pot, or has the
\* bet back on the balance.
VoteConserved ==
  [][(ContinueGameTimeout /\ clicks = <<>>) =>
       \A u \in Users :
          voteDebit[u] = BetAmount =>
             \/ /\ activeGames'
                /\ u \in PlayerIds(game')
                /\ game'.pot >= BetAmount * Cardinality(PlayerIds(game'))
                /\ ledger'[u] = ledger[u]
             \/ ledger'[u] = ledger[u] + BetAmount]_vars

\* ------------------------------------------------------------------ C39
\* C39: the table bet.  In every state of a hand that is on, handlers
\* taken one at a time, no player's bet is above game.currentBet, some
\* player who has not folded has bet exactly game.currentBet, and a step
\* that leaves the hand on does not lower game.currentBet.
BetBelowTable ==
  \A i \in Seats(game) : game.players[i].currentBet <= game.currentBet

TableBetHeld ==
  \E i \in NonFolded(game) : game.players[i].currentBet = game.currentBet

HandOn == activeGames /\ game.round \in Streets

TableBetIsMax ==
  /\ [](HandOn => BetBelowTable /\ TableBetHeld)
  /\ [][(HandOn /\ HandOn') => game'.currentBet >= game.currentBet]_vars

\* one player folded, one short all-in below a table bet of two or more
TableBetIsMaxWitness ==
  /\ HandOn
  /\ game.currentBet >= 2
  /\ \E i \in Seats(game) : game.players[i].hasFolded
  /\ \E i \in NonFolded(game) :
        /\ game.players[i].isAllIn
        /\ game.players[i].currentBet < game.currentBet

====
